---------------------------- MODULE Spec2Model ----------------------------
(***************************************************************************)
(* A model of the fact-checking pipeline of fake-news-checker/backend:     *)
(* FactChecker.check_fact (fact_checker.py) with the pure functions it     *)
(* uses, SimilarityChecker.calculate_similarity_batch and                  *)
(* SimilarityChecker.generate_verdict (similarity_checker.py).             *)
(*                                                                         *)
(* Similarity scores are fixed-point numbers in hundredths: 85 is 0.85,    *)
(* One is 1.0.  A URL is the sequence of its characters; the part before   *)
(* the query string is abbreviated to one character.  A title is the       *)
(* sequence of its phrases; Vietnamese phrases are written without         *)
(* diacritics.  An optional value (a key of the result record that may be  *)
(* unset, a function result that may be None) is a sequence of length 0    *)
(* or 1.                                                                   *)
(***************************************************************************)
EXTENDS Integers, Sequences, FiniteSets, TLC

\* ------------------------------------------------------------------ bounds

\* num_sources of the request: the search client returns at most this many
\* candidates to the pipeline.
MaxCandidates == 2

\* The largest number of crawled references the scoring stage is started with
\* in SpecScoring.
MaxRefs == 4

\* generate_verdict is applied to every score of 0 - MaxScore .. MaxScore in
\* SpecVerdict (hundredths).
MaxScore == 120

\* ------------------------------------------------------- program constants

One == 100
MinFullTextLen == 15
TopN == 3
HalfScore == 50
RefutationMin == 60
ThresholdHighlyTrue == 85
ThresholdLikelyTrue == 70
ThresholdUncertain == 50
ThresholdLikelyFalse == 30

None == << >>
Some(x) == << x >>

\* ---------------------------------------------------------------- helpers

RECURSIVE SeqSet(_, _)
\* The sequences over S of length at most n.
SeqSet(S, n) ==
    IF n = 0 THEN { << >> }
    ELSE LET shorter == SeqSet(S, n - 1)
         IN  shorter \cup { Append(s, x) : s \in { t \in shorter : Len(t) = n - 1 }, x \in S }

\* s.split(c)[0]: the prefix of s before the first occurrence of c.
SplitFirst(s, c) ==
    LET hits == { i \in 1..Len(s) : s[i] = c }
    IN  IF hits = {} THEN s
        ELSE SubSeq(s, 1, (CHOOSE i \in hits : \A j \in hits : i <= j) - 1)

Abs(x) == IF x < 0 THEN 0 - x ELSE x

\* ------------------------------------------------------------ input pools

\* URLs the search client may return: the same page with and without a query
\* string or fragment, and another page.
UrlPool ==
    { << "a" >>, << "a", "?", "r" >>, << "a", "#", "f", "?", "r" >>, << "b" >> }

\* The user's input: a URL, or a text (which may itself look like a URL).
InputPool == { << "a", "?", "r" >>, << "b", "#", "f" >> }

\* Titles as the search client returns them (any case).
ArticleTitles == { << "Thoi su" >>, << "Tin Gia", "vaccine" >> }

\* Lengths of the preprocessed full text around the minimum.
FullTextLens == { MinFullTextLen - 1, MinFullTextLen }

\* Similarities the embedding model may return in the whole pipeline (Spec)
\* and in the scoring stage alone (SpecScoring), in hundredths.
PipelineScores == { 40, 90 }
ScoringScores == { 0 - 20, 60, 61, 90 }

\* ------------------------------------------------- fact_checker.py, pure

\* url.split("?")[0].split("#")[0]
StripUrl_NoFragment(url) == SplitFirst(url, "?")
StripUrl(url) == SplitFirst(SplitFirst(url, "?"), "#")

RECURSIVE FilterSelf(_, _)
\* The loop of lines 110-117: the articles whose stripped URL differs from the
\* stripped input URL, in their order.
FilterSelf(articles, input_url) ==
    IF articles = << >> THEN << >>
    ELSE IF StripUrl(Head(articles).url) # StripUrl(input_url)
         THEN << Head(articles) >> \o FilterSelf(Tail(articles), input_url)
         ELSE FilterSelf(Tail(articles), input_url)

\* reference_articles after lines 107-119: filtered only when input_type is url.
FilteredReferences(articles, input_type, user_input) ==
    IF input_type = "url" THEN FilterSelf(articles, user_input) ELSE articles

\* str.lower() on the phrases of the model.
LowerPhrase(p) ==
    CASE p = "Tin Gia" -> "tin gia"
      [] p = "Thoi su" -> "thoi su"
      [] OTHER -> p

Lower(title) == [ i \in 1..Len(title) |-> LowerPhrase(title[i]) ]

\* TextPreprocessor.normalize_text on a title: lower case (the characters it
\* blanks do not occur in the model's phrases).
NormalizeTitle(title) == Lower(title)

refutation_keywords ==
    { "bac bo", "phu nhan", "dinh chinh", "tin don", "tin gia",
      "su that", "thuc hu", "gia mao", "vu khong" }

\* any(keyword in title_lower for keyword in refutation_keywords)
HasRefutation(title) == \E i \in 1..Len(Lower(title)) : Lower(title)[i] \in refutation_keywords

\* Lines 252-264: the adjusted score of one top result.
AdjustScore_AtLeast(r) ==
    IF HasRefutation(r.title) /\ r.overall_similarity >= RefutationMin
    THEN One - r.overall_similarity
    ELSE r.overall_similarity
AdjustScore(r) ==
    IF HasRefutation(r.title) /\ r.overall_similarity > RefutationMin
    THEN One - r.overall_similarity
    ELSE r.overall_similarity

\* similarity_results[: min(3, len(similarity_results))]
TopResults(similarity_results) ==
    SubSeq(similarity_results, 1,
           IF Len(similarity_results) < TopN THEN Len(similarity_results) ELSE TopN)

FinalScores_Raw(top_results) ==
    [ i \in 1..Len(top_results) |-> top_results[i].overall_similarity ]

\* final_scores of lines 245-265.
FinalScores(top_results) == [ i \in 1..Len(top_results) |-> AdjustScore(top_results[i]) ]

\* highest_similarity of lines 247-266: the first adjusted score, 0 without one.
HighestSimilarity_Last(top_scores) ==
    IF top_scores = << >> THEN 0 ELSE top_scores[Len(top_scores)]
HighestSimilarity(top_scores) == IF top_scores = << >> THEN 0 ELSE top_scores[1]

\* ------------------------------------------- similarity_checker.py, pure

generate_verdict_Strict(similarity_score) ==
    [ verdict |->
        IF similarity_score > ThresholdHighlyTrue THEN "HIGHLY_LIKELY_TRUE"
        ELSE IF similarity_score > ThresholdLikelyTrue THEN "LIKELY_TRUE"
        ELSE IF similarity_score > ThresholdUncertain THEN "UNCERTAIN"
        ELSE IF similarity_score > ThresholdLikelyFalse THEN "LIKELY_FALSE"
        ELSE "HIGHLY_LIKELY_FALSE",
      similarity_score |-> similarity_score,
      confidence |-> Abs(similarity_score - 50) * 2 ]
generate_verdict_Swapped(similarity_score) ==
    [ verdict |->
        IF similarity_score >= ThresholdHighlyTrue THEN "HIGHLY_LIKELY_TRUE"
        ELSE IF similarity_score >= ThresholdLikelyTrue THEN "UNCERTAIN"
        ELSE IF similarity_score >= ThresholdUncertain THEN "LIKELY_TRUE"
        ELSE IF similarity_score >= ThresholdLikelyFalse THEN "LIKELY_FALSE"
        ELSE "HIGHLY_LIKELY_FALSE",
      similarity_score |-> similarity_score,
      confidence |-> Abs(similarity_score - 50) * 2 ]
\* SimilarityChecker.generate_verdict; label, explanation and color are fixed
\* by the verdict code and left out.
generate_verdict(similarity_score) ==
    [ verdict |->
        IF similarity_score >= ThresholdHighlyTrue THEN "HIGHLY_LIKELY_TRUE"
        ELSE IF similarity_score >= ThresholdLikelyTrue THEN "LIKELY_TRUE"
        ELSE IF similarity_score >= ThresholdUncertain THEN "UNCERTAIN"
        ELSE IF similarity_score >= ThresholdLikelyFalse THEN "LIKELY_FALSE"
        ELSE "HIGHLY_LIKELY_FALSE",
      similarity_score |-> similarity_score,
      confidence |-> Abs(similarity_score - 50) * 2 ]

RECURSIVE InsertDesc(_, _), SortDesc(_)
\* x placed after every entry whose similarity is at least x's: equal entries
\* keep their order, as list.sort(reverse=True) keeps them.
InsertDesc(sorted, x) ==
    IF sorted = << >> THEN << x >>
    ELSE IF Head(sorted).similarity >= x.similarity
         THEN << Head(sorted) >> \o InsertDesc(Tail(sorted), x)
         ELSE << x >> \o sorted

SortDesc(items) ==
    IF items = << >> THEN << >>
    ELSE InsertDesc(SortDesc(SubSeq(items, 1, Len(items) - 1)), items[Len(items)])

\* SimilarityChecker.calculate_similarity_batch, given the cosine similarities
\* sims[i] the model computes for reference_texts[i]: one entry per text with
\* its index (1-based here, 0-based in the code), sorted by similarity
\* descending.
calculate_similarity_batch_Unsorted(sims) ==
    [ i \in 1..Len(sims) |-> [ similarity |-> sims[i], index |-> i ] ]
calculate_similarity_batch(sims) ==
    SortDesc([ i \in 1..Len(sims) |-> [ similarity |-> sims[i], index |-> i ] ])

SimilarityResults_ByPosition(batch_results, reference_contents) ==
    [ k \in 1..Len(batch_results) |->
        [ url |-> reference_contents[k].url,
          title |-> reference_contents[k].title,
          overall_similarity |-> batch_results[k].similarity ] ]

\* Lines 209-223: the scores mapped back to the crawled references.
SimilarityResults(batch_results, reference_contents) ==
    [ k \in 1..Len(batch_results) |->
        [ url |-> reference_contents[batch_results[k].index].url,
          title |-> reference_contents[batch_results[k].index].title,
          overall_similarity |-> batch_results[k].similarity ] ]

\* Lines 280-289.
TopReferences(top_results) ==
    [ k \in 1..Len(top_results) |->
        [ url |-> top_results[k].url,
          title |-> top_results[k].title,
          similarity |-> top_results[k].overall_similarity ] ]

\* ------------------------------------------------- web_searcher.py, pure

\* The clock advances up to MaxTime, in units of 12 hours.
MaxTime == 2

\* SmartCache.ttl: 24 hours, in units of the clock.
ttl == 2

\* The keys of WebSearcher.trusted_sources; priority_sources (line 609) lists
\* the same five domains.
trusted_sources ==
    { "vnexpress.net", "tuoitre.vn", "thanhnien.vn", "dantri.com.vn",
      "vietnamnet.vn" }

\* A link a provider hands back is its host followed by the rest of the link
\* in pieces: two links of one page of vnexpress.net, a link of tuoitre.vn, a
\* link of a foreign host that carries a trusted name in its path, and a
\* foreign link.
\* The item lists one call of each provider may yield before the client-side
\* filter: the search API, the site searches of search_parallel taken
\* together, and the scraped result page.
ApiPages ==
    { << >>,
      << << "vnexpress.net", "/a" >> >>,
      << << "evil.example", "/vnexpress.net" >>, << "other.example", "/c" >> >> }

SitePages ==
    { << >>,
      << << "vnexpress.net", "/a", "?", "r" >> >>,
      << << "tuoitre.vn", "/b" >>, << "vnexpress.net", "/a" >> >> }

ScrapePages ==
    { << >>,
      << << "vnexpress.net", "/a" >> >>,
      << << "other.example", "/c" >> >> }

\* `domain in piece` of Python, for the pieces of SearchUrlPool.
PieceContains(piece, domain) ==
    \/ piece = domain
    \/ piece = "/vnexpress.net" /\ domain = "vnexpress.net"

\* any(domain in link for domain in self.trusted_sources.keys()), lines 469
\* and 517; `source_domain not in href` of lines 341 and 389 over the five
\* priority sources.
MentionsTrusted(link) ==
    \E domain \in trusted_sources :
        \E i \in 1..Len(link) : PieceContains(link[i], domain)

\* The results one strategy appends for the items a provider yielded.
StrategyResults(pages, source) ==
    LET kept == SelectSeq(pages, MentionsTrusted)
    IN  [ i \in 1..Len(kept) |-> [ url |-> kept[i], source |-> source ] ]

\* Lines 629-633: the dict keyed by result['url'] keeps the first result of
\* each URL, in insertion order.
RECURSIVE UniqueResults(_, _)
UniqueResults(results_list, seen) ==
    IF results_list = << >> THEN << >>
    ELSE IF Head(results_list).url \in seen
         THEN UniqueResults(Tail(results_list), seen)
         ELSE << Head(results_list) >> \o
              UniqueResults(Tail(results_list), seen \cup { Head(results_list).url })

\* Line 635: list(unique_results.values())[:num_results].
FinalResults_All(results_list, n) == UniqueResults(results_list, {})
FinalResults(results_list, n) ==
    LET unique_results == UniqueResults(results_list, {})
    IN  SubSeq(unique_results, 1,
               IF Len(unique_results) < n THEN Len(unique_results) ELSE n)

\* Lines 606, 613: a further strategy runs while the query has fewer than
\* num_results results.
NeedsMore_Always(results_list, n) == TRUE
NeedsMore(results_list, n) == Len(results_list) < n

\* SmartCache.get: the data of a fresh entry, None otherwise; an expired entry
\* is deleted. The md5 key of a query stands for the query.
CacheGet_Inclusive(c, query, t) ==
    IF c[query] # None /\ t - c[query][1].timestamp <= ttl
    THEN Some(c[query][1].data)
    ELSE None
CacheGet(c, query, t) ==
    IF c[query] # None /\ t - c[query][1].timestamp < ttl
    THEN Some(c[query][1].data)
    ELSE None

CacheAfterGet(c, query, t) ==
    IF c[query] # None /\ ~(t - c[query][1].timestamp < ttl)
    THEN [ c EXCEPT ![query] = None ]
    ELSE c

\* SmartCache.set.
CacheSet(c, query, data, t) ==
    [ c EXCEPT ![query] = Some([ data |-> data, timestamp |-> t ]) ]

\* Line 619: `if self.cache and query_results`.
ShouldCache_Always(results_list) == TRUE
ShouldCache(results_list) == results_list # << >>

\* ------------------------------------------------------------ crawler.py

\* The content threshold of the extraction methods, in characters.
MinContentLen == 100

\* An extracted text is a sequence of runs of characters of one kind: "w"
\* for the characters normalize_text keeps, "s" for white space, "x" for the
\* characters its first re.sub turns into a blank.
Run(kind, n) == [ kind |-> kind, n |-> n ]

\* The contents _extract_content (or the snippet element) may yield.
RawContents ==
    { << >>,
      << Run("w", 99) >>,
      << Run("w", 100) >>,
      << Run("w", 101) >>,
      << Run("w", 60), Run("s", 41), Run("w", 1) >>,
      << Run("x", 101) >>,
      << Run("s", 2), Run("w", 150), Run("x", 1) >> }

\* len(text)
RECURSIVE TextLen(_)
TextLen(runs) == IF runs = << >> THEN 0 ELSE Head(runs).n + TextLen(Tail(runs))

\* normalize_text: characters outside the kept classes become blanks, every
\* run of white space becomes one blank, and the ends are stripped. Lower
\* case and NFC leave the runs as they are.
RECURSIVE CollapseRuns(_, _)
CollapseRuns(runs, after_blank) ==
    IF runs = << >> THEN << >>
    ELSE IF Head(runs).kind = "w"
         THEN << Head(runs) >> \o CollapseRuns(Tail(runs), FALSE)
         ELSE IF after_blank
              THEN CollapseRuns(Tail(runs), TRUE)
              ELSE << Run("s", 1) >> \o CollapseRuns(Tail(runs), TRUE)

normalize_text(runs) ==
    LET collapsed == CollapseRuns(runs, TRUE)
    IN  IF collapsed # << >> /\ collapsed[Len(collapsed)].kind = "s"
        THEN SubSeq(collapsed, 1, Len(collapsed) - 1)
        ELSE collapsed

\* What one extraction method meets: an exception inside its try, no usable
\* page (status other than 200, no snapshot, no matching search hit), or a
\* page with a title (possibly empty) and a content.
MethodOutcomes ==
    { [ kind |-> "exception", has_title |-> FALSE, content |-> << >> ],
      [ kind |-> "no_page", has_title |-> FALSE, content |-> << >> ] } \cup
    { [ kind |-> "page", has_title |-> t, content |-> c ] :
        t \in BOOLEAN, c \in RawContents }

\* Lines 128-139 and 186-197: `if content and len(content) > 100`, then the
\* normalized record.
PageResult(outcome) ==
    IF outcome.kind = "page" /\ outcome.content # << >>
       /\ TextLen(outcome.content) > MinContentLen
    THEN Some([ content |-> normalize_text(outcome.content) ])
    ELSE None

\* Lines 229-238: `if title and snippet and len(snippet) > 100`.
SnippetResult(outcome) ==
    IF outcome.kind = "page" /\ outcome.has_title /\ outcome.content # << >>
       /\ TextLen(outcome.content) > MinContentLen
    THEN Some([ content |-> normalize_text(outcome.content) ])
    ELSE None

\* preprocessor.py lines 267-279: `if not content or len(content) < 100:
\* return None`, then the normalized record.
PreprocessorResult(outcome) ==
    IF outcome.kind = "page" /\ outcome.content # << >>
       /\ ~(TextLen(outcome.content) < MinContentLen)
    THEN Some([ content |-> normalize_text(outcome.content) ])
    ELSE None

\* Lines 58, 63, 68: `if result`.
Succeeded_Never(result) == FALSE
Succeeded(result) == result # None

\* ------------------------------------- web_searcher.py, build_smart_queries

\* A title has at most MaxTitleWords words, a keyword list at most MaxKeywords
\* keywords.
MaxTitleWords == 3
MaxKeywords == 2

\* A word: its spelling, its number of characters, whether its lower case is
\* in the stopwords of lines 219-241, whether str.isdigit holds of it. A
\* string is the sequence of its words, separated by single blanks.
Word(name, len, stop, isdigit) ==
    [ name |-> name, len |-> len, stop |-> stop, isdigit |-> isdigit ]

TitleWords ==
    { Word("vang", 4, FALSE, FALSE), Word("tang", 4, FALSE, FALSE),
      Word("nghiem", 6, FALSE, FALSE), Word("trong", 5, TRUE, FALSE),
      Word("2024", 4, FALSE, TRUE) }

\* KeyBERT returns phrases of one or two words (preprocessor.py line 133).
KeywordPool ==
    { << Word("gia", 3, FALSE, FALSE) >>,
      << Word("nghiem", 6, FALSE, FALSE) >>,
      << Word("vang", 4, FALSE, FALSE), Word("tang", 4, FALSE, FALSE) >> }

\* What the full text adds to the title: nothing, or a year.
FullTexts == { << >>, << Word("2024", 4, FALSE, TRUE) >> }

\* len(s) of a string.
RECURSIVE StrLen(_)
StrLen(str) ==
    IF str = << >> THEN 0
    ELSE IF Len(str) = 1 THEN str[1].len
    ELSE str[1].len + 1 + StrLen(Tail(str))

\* ' '.join(parts) of a list of strings.
RECURSIVE Join(_)
Join(parts) == IF parts = << >> THEN << >> ELSE Head(parts) \o Join(Tail(parts))

\* s[:n].
First(n, s) == SubSeq(s, 1, IF Len(s) < n THEN Len(s) ELSE n)

\* title.split().
Split(str) == [ i \in 1..Len(str) |-> << str[i] >> ]

\* `k.lower() in stopwords`, `k.isdigit()`, `any(char.isdigit() ...)`.
IsStopword(str) == Len(str) = 1 /\ str[1].stop
IsDigit(str) == Len(str) = 1 /\ str[1].isdigit
HasNumber(str) == \E i \in 1..Len(str) : str[i].isdigit

\* Lines 189-213, for the pattern \d{4,}: the distinct runs of four or more
\* digits of the text in order, at most three.
RECURSIVE UniqueStrings(_, _)
UniqueStrings(strs, seen) ==
    IF strs = << >> THEN << >>
    ELSE IF Head(strs) \in seen THEN UniqueStrings(Tail(strs), seen)
    ELSE << Head(strs) >> \o UniqueStrings(Tail(strs), seen \cup { Head(strs) })

extract_numbers_from_text(text) ==
    First(3, UniqueStrings(
        SelectSeq(Split(text), LAMBDA w : IsDigit(w) /\ StrLen(w) >= 4), {}))

\* Lines 285-286: min_length.
MinLength(q) == IF HasNumber(q) THEN 10 ELSE 15

\* Line 288: `len(q) > min_length`.
PassesGate_Any(q) == TRUE
PassesGate(q) == StrLen(q) > MinLength(q)

\* Lines 281-290: the queries that pass the gate, each once.
RECURSIVE UniqueQueries(_, _)
UniqueQueries(qs, seen) ==
    IF qs = << >> THEN << >>
    ELSE IF PassesGate(Head(qs)) /\ Head(qs) \notin seen
         THEN << Head(qs) >> \o UniqueQueries(Tail(qs), seen \cup { Head(qs) })
         ELSE UniqueQueries(Tail(qs), seen)

\* Lines 244-253: title words and numbers.
TitleNumbersQuery(title, numbers) ==
    IF title # << >> /\ numbers # << >>
    THEN LET important_words ==
                 First(4, SelectSeq(Split(title),
                     LAMBDA w : ~IsStopword(w) /\ StrLen(w) > 2 /\ ~IsDigit(w)))
             query_parts == important_words \o First(2, numbers)
         IN  IF Len(query_parts) >= 3 THEN << Join(query_parts) >> ELSE << >>
    ELSE << >>

\* Lines 255-262: title words.
TitleQuery(title) ==
    IF title # << >>
    THEN LET important_words ==
                 First(5, SelectSeq(Split(title),
                     LAMBDA w : ~IsStopword(w) /\ StrLen(w) > 3 /\ ~IsDigit(w)))
         IN  IF Len(important_words) >= 3 THEN << Join(important_words) >> ELSE << >>
    ELSE << >>

\* Lines 266-269 and 274-277: filtered_keywords.
FilteredKeywords(keywords, n) ==
    First(n, SelectSeq(keywords,
        LAMBDA k : StrLen(k) > 2 /\ ~IsStopword(k) /\ ~IsDigit(k)))

\* Lines 264-271: keywords and a number.
KeywordsNumberQuery(keywords, numbers) ==
    IF keywords # << >> /\ numbers # << >> /\ FilteredKeywords(keywords, 4) # << >>
    THEN << Join(FilteredKeywords(keywords, 4) \o First(1, numbers)) >>
    ELSE << >>

\* Lines 273-279: keywords alone, when nothing was built yet.
KeywordsQuery(built, keywords) ==
    IF built = << >> /\ keywords # << >> /\ FilteredKeywords(keywords, 5) # << >>
    THEN << Join(FilteredKeywords(keywords, 5)) >>
    ELSE << >>

\* Lines 293-297: emergency_words.
EmergencyWords(keywords, title) ==
    LET from_title ==
            IF title # << >>
            THEN First(3, SelectSeq(Split(title), LAMBDA w : StrLen(w) > 3))
            ELSE << >>
    IN  IF from_title = << >> /\ keywords # << >>
        THEN First(3, SelectSeq(keywords, LAMBDA k : StrLen(k) > 3))
        ELSE from_title

\* Lines 292-300: the emergency query, when no query passed.
EmergencyQuery(unique_queries, keywords, title) ==
    IF unique_queries = << >> /\ (title # << >> \/ keywords # << >>)
       /\ EmergencyWords(keywords, title) # << >>
    THEN << Join(EmergencyWords(keywords, title)) >>
    ELSE << >>

\* WebSearcher.build_smart_queries (lines 215-304).
build_smart_queries(keywords, title, full_text) ==
    LET numbers == extract_numbers_from_text(title \o full_text)
        built == TitleNumbersQuery(title, numbers) \o TitleQuery(title)
                     \o KeywordsNumberQuery(keywords, numbers)
        all_built == built \o KeywordsQuery(built, keywords)
        unique_queries == UniqueQueries(all_built, {})
    IN  First(3, unique_queries \o EmergencyQuery(unique_queries, keywords, title))

\* ------------------------------------------------------------------ state

VARIABLES
    pc,                  \* where check_fact (or the caller of generate_verdict) is
    input_type,          \* "text" or "url"
    user_input,          \* the text or URL of the request
    processed,           \* what process_input returned, None before and for None
    search_results,      \* what search_for_fact_check returned, None before the call
    reference_articles,  \* the candidates after the self-reference filter
    submitted,           \* the URLs handed to the executor, in order
    pending,             \* indices of reference_articles whose future is not consumed
    usable,              \* indices whose extraction returned a non-empty content
    reference_contents,  \* the crawled references, in completion order
    top_scores,          \* the adjusted scores of the top results
    results,             \* the result record check_fact returns
    calls,               \* the collaborators called so far, in order
    arg_score,           \* the argument of a direct call of generate_verdict
    ret_verdict,         \* what that call returned, None before
    similarities         \* the cosine similarities the batch computed, by input position

\* The state of a WebSearcher and of its running search_for_fact_check.
VARIABLES
    ws_pc,               \* where search_for_fact_check is
    has_api,             \* google_api_key and google_cse_id are both configured
    processed_data,      \* the record search_for_fact_check was called with
    num_results,         \* the number of results it was asked for
    queries,             \* what build_smart_queries returned
    query_idx,           \* the position of the query loop, from 1
    query_results,       \* the results of the current query
    all_results,         \* the results merged so far
    cache,               \* SmartCache.cache: per query, (data, timestamp) or nothing
    now,                 \* the clock, in units of TickHours hours
    trace,               \* the strategies invoked by the current search, in order
    served,              \* the positions of the queries served from the cache
    evicted,             \* the positions of the queries whose expired entry a read removed
    ret                  \* what search_for_fact_check returned, None before

\* The state of the components exercised on their own.
VARIABLES
    threads,             \* the requests operating on the shared SmartCache
    crawler,             \* a running Crawler.extract_from_url
    pool,                \* the executor of the crawling stage of check_fact
    builder,             \* the calls of build_smart_queries on one input
    api,                 \* the handler of POST /api/check for one request
    wrapper              \* a call of a function wrapped by retry_with_backoff

other_vars == << threads, crawler, pool, builder, api, wrapper >>

searcher_vars ==
    << ws_pc, has_api, processed_data, num_results, queries, query_idx,
       query_results, all_results, cache, now, trace, served, evicted, ret,
       other_vars >>

vars ==
    << pc, input_type, user_input, processed, search_results, reference_articles,
       submitted, pending, usable, reference_contents, top_scores, results, calls,
       arg_score, ret_verdict, similarities, searcher_vars >>

checker_vars ==
    << pc, input_type, user_input, processed, search_results, reference_articles,
       submitted, pending, usable, reference_contents, top_scores, results, calls,
       arg_score, ret_verdict, similarities >>

pipeline_vars ==
    << input_type, user_input, processed, search_results, reference_articles,
       submitted, pending, usable, reference_contents, top_scores, results, calls >>

\* The queries build_smart_queries can produce.
QueryPool == { "q1", "q2" }

\* No request operates on the cache, no extraction runs, no executor exists.
OthersIdle ==
    /\ threads = None
    /\ crawler = None
    /\ pool = None
    /\ builder = None
    /\ api = None
    /\ wrapper = None

\* A WebSearcher no search was run on: an empty cache, nothing returned.
SearcherIdle ==
    /\ ws_pc = "idle"
    /\ has_api = FALSE
    /\ processed_data = None
    /\ num_results = 0
    /\ queries = << >>
    /\ query_idx = 0
    /\ query_results = << >>
    /\ all_results = << >>
    /\ cache = [ q \in QueryPool |-> None ]
    /\ now = 0
    /\ trace = << >>
    /\ served = {}
    /\ evicted = {}
    /\ ret = None
    /\ OthersIdle

\* results of lines 57-62; timestamp, input_type and original_input never change.
InitialResults ==
    [ status |-> "processing", error |-> None, message |-> None,
      processed_data |-> None, verdict |-> None, average_similarity |-> None,
      highest_similarity |-> None, similarity_details |-> None,
      top_references |-> None ]

\* The except clause of lines 303-307.
ExceptBlock_Unset(res) == res
ExceptBlock(res) == [ res EXCEPT !.status = "error", !.error = Some("exception") ]

\* Lines 69-73.
PreprocessFailedResult(res) ==
    [ res EXCEPT !.status = "error", !.error = Some("Khong the xu ly input") ]

\* Lines 74-82.
InputTooShort_OffByOne(p) == p.keywords = 0 /\ p.full_text_len < MinFullTextLen - 1
InputTooShort(p) == p.keywords = 0 /\ p.full_text_len < MinFullTextLen

InputTooShortResult(res) ==
    [ res EXCEPT !.status = "input_too_short", !.message = Some("too short") ]

\* Lines 99-103 and 134-138.
NoReferencesResult_WrongStatus(res) ==
    [ res EXCEPT !.status = "crawl_failed", !.message = Some("no references") ]
NoReferencesResult(res) ==
    [ res EXCEPT !.status = "no_references", !.message = Some("no references") ]

\* Lines 124-133.
NoOtherReferencesResult_Zero(res) ==
    [ res EXCEPT !.status = "no_other_references",
                 !.message = Some("no other references"),
                 !.verdict = Some(generate_verdict(0)),
                 !.average_similarity = Some(0),
                 !.top_references = Some(<< >>) ]
NoOtherReferencesResult(res) ==
    [ res EXCEPT !.status = "no_other_references",
                 !.message = Some("no other references"),
                 !.verdict = Some(generate_verdict(HalfScore)),
                 !.average_similarity = Some(HalfScore),
                 !.top_references = Some(<< >>) ]

\* Lines 180-184.
CrawlFailedResult(res) ==
    [ res EXCEPT !.status = "crawl_failed", !.message = Some("crawl failed") ]

\* Lines 276-289.
SuccessResult_NoVerdict(res, verdict, highest, similarity_results, top_results) ==
    [ res EXCEPT !.status = "success",
                 !.highest_similarity = Some(highest),
                 !.similarity_details = Some(similarity_results),
                 !.top_references = Some(TopReferences(top_results)) ]
SuccessResult(res, verdict, highest, similarity_results, top_results) ==
    [ res EXCEPT !.status = "success",
                 !.verdict = Some(verdict),
                 !.highest_similarity = Some(highest),
                 !.similarity_details = Some(similarity_results),
                 !.top_references = Some(TopReferences(top_results)) ]

\* FactChecker.format_result_for_frontend; percentages are the hundredths of
\* the model, message, keywords and timestamp are left out.
FormatResult(res) ==
    IF res.status = "input_too_short"
    THEN [ success |-> FALSE, verdict |-> None, references |-> None ]
    ELSE IF res.status = "no_other_references"
    THEN [ success |-> TRUE,
           verdict |-> Some([ code |-> res.verdict[1].verdict,
                              similarity_percentage |-> res.average_similarity[1],
                              confidence_percentage |-> res.verdict[1].confidence ]),
           references |-> Some(<< >>) ]
    ELSE IF res.status # "success"
    THEN [ success |-> FALSE, verdict |-> None, references |-> None ]
    ELSE [ success |-> TRUE,
           verdict |-> Some([ code |-> res.verdict[1].verdict,
                              similarity_percentage |-> res.highest_similarity[1],
                              confidence_percentage |-> res.verdict[1].confidence ]),
           references |-> Some([ k \in 1..Len(res.top_references[1]) |->
                                   [ url |-> res.top_references[1][k].url,
                                     title |-> res.top_references[1][k].title,
                                     similarity_percentage |->
                                         res.top_references[1][k].similarity ] ]) ]

\* What TextPreprocessor.process_input may return: a record, or None when the
\* URL of a url input could not be extracted (a text input always yields a
\* record, with an empty title).
ProcessedOutcomes(type) ==
    { Some([ keywords |-> k, full_text_len |-> n, has_title |-> t ]) :
        k \in 0..1, n \in FullTextLens, t \in (IF type = "url" THEN BOOLEAN ELSE { FALSE }) }
    \cup (IF type = "url" THEN { None } ELSE {})

\* What WebSearcher.search_for_fact_check may return: nothing without keywords
\* and title (lines 570-572), else at most count candidates with
\* pairwise distinct URLs (lines 629-635).
Candidates == { [ url |-> u, title |-> t ] : u \in UrlPool, t \in ArticleTitles }

SearchOutcomes(p, count) ==
    IF p.keywords = 0 /\ ~p.has_title THEN { << >> }
    ELSE { a \in SeqSet(Candidates, count) :
             \A i, j \in 1..Len(a) : i # j => a[i].url # a[j].url }

\* What TextPreprocessor._process_url may return for a candidate: None, or a
\* record whose title went through normalize_text and may be empty, and whose
\* content may be empty.
CrawlOutcomes ==
    { None } \cup
    { Some([ title |-> t, content_len |-> n ]) :
        t \in { << >> } \cup { NormalizeTitle(a) : a \in ArticleTitles }, n \in { 0, 100 } }

\* Lines 160-176: the body of the as_completed loop for one returned future.
CrawlBody_KeepEmpty(contents, article, content) ==
    IF content # None
    THEN Append(contents,
                [ url |-> article.url,
                  title |-> IF content[1].title # << >> THEN content[1].title
                            ELSE article.title ])
    ELSE contents
CrawlBody(contents, article, content) ==
    IF content # None /\ content[1].content_len > 0
    THEN Append(contents,
                [ url |-> article.url,
                  title |-> IF content[1].title # << >> THEN content[1].title
                            ELSE article.title ])
    ELSE contents

\* ---------------------------------------------------------------- actions

Init ==
    /\ pc = "start"
    /\ input_type \in { "text", "url" }
    /\ user_input \in InputPool
    /\ processed = None
    /\ search_results = None
    /\ reference_articles = << >>
    /\ submitted = << >>
    /\ pending = {}
    /\ usable = {}
    /\ reference_contents = << >>
    /\ top_scores = << >>
    /\ results = InitialResults
    /\ calls = << >>
    /\ arg_score = 0
    /\ ret_verdict = None
    /\ similarities = << >>
    /\ SearcherIdle

\* process_input raises (line 68): the except clause returns the record.
PreprocessRaises ==
    /\ pc = "start"
    /\ calls' = Append(calls, "process_input")
    /\ results' = ExceptBlock(results)
    /\ pc' = "done"
    /\ UNCHANGED << input_type, user_input, processed, search_results,
                    reference_articles, submitted, pending, usable, reference_contents,
                    top_scores, arg_score, ret_verdict, similarities >>
    /\ UNCHANGED searcher_vars

\* Lines 68-90: process_input returns.
Preprocess ==
    /\ pc = "start"
    /\ \E p \in ProcessedOutcomes(input_type) :
         /\ processed' = p
         /\ IF p = None
            THEN /\ results' = PreprocessFailedResult(results)
                 /\ pc' = "done"
            ELSE IF InputTooShort(p[1])
            THEN /\ results' = InputTooShortResult(results)
                 /\ pc' = "done"
            ELSE /\ results' = [ results EXCEPT !.processed_data = p ]
                 /\ pc' = "search"
    /\ calls' = Append(calls, "process_input")
    /\ UNCHANGED << input_type, user_input, search_results, reference_articles,
                    submitted, pending, usable, reference_contents, top_scores,
                    arg_score, ret_verdict, similarities >>
    /\ UNCHANGED searcher_vars

\* search_for_fact_check raises (line 96).
SearchRaises ==
    /\ pc = "search"
    /\ calls' = Append(calls, "search_for_fact_check")
    /\ results' = ExceptBlock(results)
    /\ pc' = "done"
    /\ UNCHANGED << input_type, user_input, processed, search_results,
                    reference_articles, submitted, pending, usable, reference_contents,
                    top_scores, arg_score, ret_verdict, similarities >>
    /\ UNCHANGED searcher_vars

\* Lines 96-156: search_for_fact_check returns; the self-reference filter; the
\* remaining candidates are submitted to the executor.
Search ==
    /\ pc = "search"
    /\ \E found \in SearchOutcomes(processed[1], MaxCandidates) :
         LET filtered == FilteredReferences(found, input_type, user_input)
         IN  /\ search_results' = Some(found)
             /\ IF found = << >>
                THEN /\ results' = NoReferencesResult(results)
                     /\ reference_articles' = << >>
                     /\ submitted' = << >>
                     /\ pending' = {}
                     /\ pc' = "done"
                ELSE IF filtered = << >>
                THEN /\ results' = IF input_type = "url"
                                   THEN NoOtherReferencesResult(results)
                                   ELSE NoReferencesResult(results)
                     /\ reference_articles' = filtered
                     /\ submitted' = << >>
                     /\ pending' = {}
                     /\ pc' = "done"
                ELSE /\ results' = results
                     /\ reference_articles' = filtered
                     /\ submitted' = [ i \in 1..Len(filtered) |-> filtered[i].url ]
                     /\ pending' = 1..Len(filtered)
                     /\ pc' = "crawl"
             /\ calls' =
                  IF found # << >> /\ filtered = << >> /\ input_type = "url"
                  THEN calls \o << "search_for_fact_check", "generate_verdict" >>
                  ELSE Append(calls, "search_for_fact_check")
    /\ UNCHANGED << input_type, user_input, processed, usable, reference_contents,
                    top_scores, arg_score, ret_verdict, similarities >>
    /\ UNCHANGED searcher_vars

\* What a raising future would do if it ended the loop and dropped what the
\* other futures returned.
CrawlRaises_DiscardsSiblings ==
    /\ pc = "crawl"
    /\ pending # {}
    /\ pending' = {}
    /\ reference_contents' = << >>
    /\ UNCHANGED << pc, input_type, user_input, processed, search_results,
                    reference_articles, submitted, usable, top_scores,
                    results, calls, arg_score, ret_verdict, similarities >>
    /\ UNCHANGED searcher_vars

\* Lines 157-178, one iteration whose future raised: logged, nothing kept.
CrawlRaises ==
    /\ pc = "crawl"
    /\ \E i \in pending : pending' = pending \ { i }
    /\ UNCHANGED << pc, input_type, user_input, processed, search_results,
                    reference_articles, submitted, usable, reference_contents, top_scores,
                    results, calls, arg_score, ret_verdict, similarities >>
    /\ UNCHANGED searcher_vars

\* Lines 157-176, one iteration of the as_completed loop: some future that is
\* not consumed yet completes with a value.
CrawlComplete ==
    /\ pc = "crawl"
    /\ \E i \in pending, content \in CrawlOutcomes :
         /\ pending' = pending \ { i }
         /\ reference_contents' = CrawlBody(reference_contents, reference_articles[i], content)
         /\ usable' = IF content # None /\ content[1].content_len > 0
                      THEN usable \cup { i } ELSE usable
    /\ UNCHANGED << pc, input_type, user_input, processed, search_results,
                    reference_articles, submitted, top_scores, results, calls,
                    arg_score, ret_verdict, similarities >>
    /\ UNCHANGED searcher_vars

\* Lines 180-184: every future is consumed and nothing was crawled.
CrawlFailed ==
    /\ pc = "crawl"
    /\ pending = {}
    /\ reference_contents = << >>
    /\ results' = CrawlFailedResult(results)
    /\ pc' = "done"
    /\ UNCHANGED << input_type, user_input, processed, search_results,
                    reference_articles, submitted, pending, usable, reference_contents,
                    top_scores, calls, arg_score, ret_verdict, similarities >>
    /\ UNCHANGED searcher_vars

\* calculate_similarity_batch raises (line 206).
ScoreRaises ==
    /\ pc = "crawl"
    /\ pending = {}
    /\ reference_contents # << >>
    /\ calls' = Append(calls, "calculate_similarity_batch")
    /\ results' = ExceptBlock(results)
    /\ pc' = "done"
    /\ UNCHANGED << input_type, user_input, processed, search_results,
                    reference_articles, submitted, pending, usable, reference_contents,
                    top_scores, arg_score, ret_verdict, similarities >>
    /\ UNCHANGED searcher_vars

\* Lines 194-301: calculate_similarity_batch returns the similarities the model
\* computes, drawn from Scores; refutation adjustment; verdict; success.
ScoreAndVerdict(Scores) ==
    /\ pc = "crawl"
    /\ pending = {}
    /\ reference_contents # << >>
    /\ \E sims \in [ 1..Len(reference_contents) -> Scores ] :
         LET batch_results == calculate_similarity_batch(sims)
             similarity_results == SimilarityResults(batch_results, reference_contents)
             top_results == TopResults(similarity_results)
             final_scores == FinalScores(top_results)
             highest_similarity == HighestSimilarity(final_scores)
             verdict == generate_verdict(highest_similarity)
         IN  /\ top_scores' = final_scores
             /\ similarities' = sims
             /\ results' = SuccessResult(results, verdict, highest_similarity,
                                         similarity_results, top_results)
    /\ calls' = calls \o << "calculate_similarity_batch", "generate_verdict" >>
    /\ pc' = "done"
    /\ UNCHANGED << input_type, user_input, processed, search_results,
                    reference_articles, submitted, pending, usable, reference_contents,
                    arg_score, ret_verdict >>
    /\ UNCHANGED searcher_vars

Next ==
    \/ PreprocessRaises
    \/ Preprocess
    \/ SearchRaises
    \/ Search
    \/ CrawlRaises
    \/ CrawlComplete
    \/ CrawlFailed
    \/ ScoreRaises
    \/ ScoreAndVerdict(PipelineScores)

Spec == Init /\ [][Next]_vars

\* ------------------------------------------- the scoring stage on its own

\* The crawled references the scoring stage may start with: every candidate of
\* a text request was crawled, with any title the crawl can give it.
CrawledTitles == ArticleTitles \cup { NormalizeTitle(a) : a \in ArticleTitles }

\* The i-th crawled page: "p" followed by i characters.
RefUrl(i) == << "p" >> \o [ j \in 1..i |-> "x" ]

InitScoring ==
    /\ pc = "crawl"
    /\ input_type = "text"
    /\ user_input \in { << "a", "?", "r" >> }
    /\ processed = Some([ keywords |-> 1, full_text_len |-> MinFullTextLen, has_title |-> FALSE ])
    /\ \E n \in 1..MaxRefs :
         \E titles \in [ 1..n -> CrawledTitles ] :
            /\ reference_contents = [ i \in 1..n |-> [ url |-> RefUrl(i), title |-> titles[i] ] ]
            /\ reference_articles = [ i \in 1..n |-> [ url |-> RefUrl(i), title |-> titles[i] ] ]
            /\ search_results = Some([ i \in 1..n |-> [ url |-> RefUrl(i), title |-> titles[i] ] ])
            /\ submitted = [ i \in 1..n |-> RefUrl(i) ]
            /\ usable = 1..n
    /\ pending = {}
    /\ top_scores = << >>
    /\ results = [ InitialResults EXCEPT !.processed_data = processed ]
    /\ calls = << "process_input", "search_for_fact_check" >>
    /\ arg_score = 0
    /\ ret_verdict = None
    /\ similarities = << >>
    /\ SearcherIdle

NextScoring ==
    \/ ScoreRaises
    \/ ScoreAndVerdict(ScoringScores)

SpecScoring == InitScoring /\ [][NextScoring]_vars

\* ------------------------------- the scoring stage of a full result list

\* DEFAULT_NUM_RESULTS: the number of candidates check_fact asks the searcher
\* for.
DEFAULT_NUM_RESULTS == 5

\* Similarities of about 0.9.
HappyScores == { 88, 90, 92 }

\* check_fact after line 184 for a text input whose search returned
\* DEFAULT_NUM_RESULTS candidates that were all crawled.
InitHappy ==
    /\ pc = "crawl"
    /\ input_type = "text"
    /\ user_input \in { << "a", "?", "r" >> }
    /\ processed = Some([ keywords |-> 1, full_text_len |-> MinFullTextLen, has_title |-> FALSE ])
    /\ \E titles \in [ 1..DEFAULT_NUM_RESULTS -> ArticleTitles ] :
         LET found == [ i \in 1..DEFAULT_NUM_RESULTS |->
                          [ url |-> RefUrl(i), title |-> titles[i] ] ]
         IN  /\ reference_contents = found
             /\ reference_articles = found
             /\ search_results = Some(found)
             /\ submitted = [ i \in 1..DEFAULT_NUM_RESULTS |-> RefUrl(i) ]
             /\ usable = 1..DEFAULT_NUM_RESULTS
    /\ pending = {}
    /\ top_scores = << >>
    /\ results = [ InitialResults EXCEPT !.processed_data = processed ]
    /\ calls = << "process_input", "search_for_fact_check" >>
    /\ arg_score = 0
    /\ ret_verdict = None
    /\ similarities = << >>
    /\ SearcherIdle

NextHappy == ScoreAndVerdict(HappyScores)

SpecHappy == InitHappy /\ [][NextHappy]_vars

\* ------------------------------------------ generate_verdict on its own

InitVerdict ==
    /\ pc = "verdict_call"
    /\ arg_score \in (0 - MaxScore)..MaxScore
    /\ ret_verdict = None
    /\ similarities = << >>
    /\ SearcherIdle
    /\ input_type = "text"
    /\ user_input \in { << "a", "?", "r" >> }
    /\ processed = None
    /\ search_results = None
    /\ reference_articles = << >>
    /\ submitted = << >>
    /\ pending = {}
    /\ usable = {}
    /\ reference_contents = << >>
    /\ top_scores = << >>
    /\ results = InitialResults
    /\ calls = << >>

\* A call of SimilarityChecker.generate_verdict(arg_score).
GenerateVerdict ==
    /\ pc = "verdict_call"
    /\ ret_verdict' = Some(generate_verdict(arg_score))
    /\ pc' = "verdict_returned"
    /\ UNCHANGED << arg_score, similarities, pipeline_vars >>
    /\ UNCHANGED searcher_vars

NextVerdict == GenerateVerdict

SpecVerdict == InitVerdict /\ [][NextVerdict]_vars

\* --------------------------------- WebSearcher.search_for_fact_check

\* The records search_for_fact_check is called with: keywords (their number)
\* and title may each be missing or empty.
ProcessedData == { [ keywords |-> k, has_title |-> t ] : k \in 0..1, t \in BOOLEAN }

\* The numbers of results asked for.
NumResultsPool == { 1, 2 }

\* What build_smart_queries may return: up to 3 distinct queries, none when
\* no word of the keywords and title is long enough.
QueryLists == { << >>, << "q1" >>, << "q2" >>, << "q1", "q2" >> }

InitSearch ==
    /\ ws_pc = "idle"
    /\ has_api \in BOOLEAN
    /\ processed_data = None
    /\ num_results = 0
    /\ queries = << >>
    /\ query_idx = 0
    /\ query_results = << >>
    /\ all_results = << >>
    /\ cache = [ q \in QueryPool |-> None ]
    /\ now = 0
    /\ trace = << >>
    /\ served = {}
    /\ evicted = {}
    /\ ret = None
    /\ OthersIdle
    /\ pc = "search_call"
    /\ input_type = "text"
    /\ user_input \in { << "a", "?", "r" >> }
    /\ processed = None
    /\ search_results = None
    /\ reference_articles = << >>
    /\ submitted = << >>
    /\ pending = {}
    /\ usable = {}
    /\ reference_contents = << >>
    /\ top_scores = << >>
    /\ results = InitialResults
    /\ calls = << >>
    /\ arg_score = 0
    /\ ret_verdict = None
    /\ similarities = << >>

\* Time passes between two searches.
Tick ==
    /\ ws_pc \in { "idle", "returned", "raised" }
    /\ now < MaxTime
    /\ now' = now + 1
    /\ UNCHANGED << ws_pc, has_api, processed_data, num_results, queries, query_idx,
                    query_results, all_results, cache, trace, served, evicted, ret >>
    /\ UNCHANGED << checker_vars, other_vars >>

\* Lines 566-590: a call of search_for_fact_check up to the query loop.
SearchForFactCheck ==
    /\ ws_pc \in { "idle", "returned", "raised" }
    /\ \E p \in ProcessedData, n \in NumResultsPool, built \in QueryLists :
         /\ processed_data' = Some(p)
         /\ num_results' = n
         /\ IF (p.keywords = 0 /\ ~p.has_title) \/ built = << >>
            THEN /\ queries' = << >>
                 /\ query_idx' = 0
                 /\ ret' = Some(<< >>)
                 /\ ws_pc' = "returned"
            ELSE /\ queries' = built
                 /\ query_idx' = 1
                 /\ ret' = None
                 /\ ws_pc' = "query"
    /\ query_results' = << >>
    /\ all_results' = << >>
    /\ trace' = << >>
    /\ served' = {}
    /\ evicted' = {}
    /\ UNCHANGED << has_api, cache, now >>
    /\ UNCHANGED << checker_vars, other_vars >>

\* The first strategy of a query (line 601), and the one after the search API
\* (line 606) and after the parallel search (line 613).
AfterParallel(results_list) ==
    IF NeedsMore(results_list, num_results) THEN "scraping" ELSE "store"

AfterApi(results_list) ==
    IF NeedsMore(results_list, num_results) THEN "parallel"
    ELSE AfterParallel(results_list)

FirstStrategy == IF has_api THEN "api" ELSE AfterApi(<< >>)

\* The end of one turn of the query loop: the next query, or lines 629-648.
LoopNext(merged) ==
    IF query_idx < Len(queries)
    THEN /\ query_idx' = query_idx + 1
         /\ ws_pc' = "query"
         /\ ret' = ret
    ELSE /\ query_idx' = query_idx
         /\ ws_pc' = "returned"
         /\ ret' = Some(FinalResults(merged, num_results))

\* Lines 594-599: the head of the loop for queries[query_idx].
StartQuery ==
    /\ ws_pc = "query"
    /\ LET query == queries[query_idx]
           cached == CacheGet(cache, query, now)
       IN  /\ cache' = CacheAfterGet(cache, query, now)
           /\ IF cached # None /\ cached[1] # << >>
              THEN /\ all_results' = all_results \o cached[1]
                   /\ served' = served \cup { query_idx }
                   /\ UNCHANGED evicted
                   /\ LoopNext(all_results \o cached[1])
                   /\ UNCHANGED query_results
              ELSE /\ query_results' = << >>
                   /\ ws_pc' = FirstStrategy
                   /\ evicted' = IF cache'[query] # cache[query]
                                 THEN evicted \cup { query_idx }
                                 ELSE evicted
                   /\ UNCHANGED << all_results, served, query_idx, ret >>
    /\ UNCHANGED << has_api, processed_data, num_results, queries, now, trace >>
    /\ UNCHANGED << checker_vars, other_vars >>

Invoked(strategy, got) ==
    [ query |-> query_idx, strategy |-> strategy, had |-> Len(query_results),
      got |-> got ]

\* Lines 601-604: search_google_custom_api; an error of the request or of the
\* parsing is caught inside and gives no result.
Strategy1 ==
    /\ ws_pc = "api"
    /\ \E failed \in BOOLEAN, pages \in ApiPages :
         LET api_results == IF failed THEN << >> ELSE StrategyResults(pages, "api")
         IN  /\ query_results' = query_results \o api_results
             /\ trace' = Append(trace, Invoked("api", Len(api_results)))
             /\ ws_pc' = AfterApi(query_results \o api_results)
    /\ UNCHANGED << has_api, processed_data, num_results, queries, query_idx,
                    all_results, cache, now, served, evicted, ret >>
    /\ UNCHANGED << checker_vars, other_vars >>

\* Lines 606-611: search_parallel; each per-domain search catches its errors
\* and gives no result then.
Strategy2 ==
    /\ ws_pc = "parallel"
    /\ \E failed \in BOOLEAN, pages \in SitePages :
         LET parallel_results == IF failed THEN << >> ELSE StrategyResults(pages, "site")
         IN  /\ query_results' = query_results \o parallel_results
             /\ trace' = Append(trace, Invoked("parallel", Len(parallel_results)))
             /\ ws_pc' = AfterParallel(query_results \o parallel_results)
    /\ UNCHANGED << has_api, processed_data, num_results, queries, query_idx,
                    all_results, cache, now, served, evicted, ret >>
    /\ UNCHANGED << checker_vars, other_vars >>

\* Line 556: a per-domain search is still running 30 seconds after
\* as_completed was called; the TimeoutError is raised outside the try of
\* search_parallel and search_for_fact_check has no handler.
Strategy2TimesOut ==
    /\ ws_pc = "parallel"
    /\ trace' = Append(trace, Invoked("parallel", 0))
    /\ ws_pc' = "raised"
    /\ ret' = None
    /\ UNCHANGED << has_api, processed_data, num_results, queries, query_idx,
                    query_results, all_results, cache, now, served, evicted >>
    /\ UNCHANGED << checker_vars, other_vars >>

\* Lines 613-617: search_google_scraping.
Strategy3 ==
    /\ ws_pc = "scraping"
    /\ \E failed \in BOOLEAN, pages \in ScrapePages :
         LET google_results == IF failed THEN << >> ELSE StrategyResults(pages, "scrape")
         IN  /\ query_results' = query_results \o google_results
             /\ trace' = Append(trace, Invoked("scraping", Len(google_results)))
    /\ ws_pc' = "store"
    /\ UNCHANGED << has_api, processed_data, num_results, queries, query_idx,
                    all_results, cache, now, served, evicted, ret >>
    /\ UNCHANGED << checker_vars, other_vars >>

\* Lines 619-648: cache the query's results, merge them, leave the loop when
\* enough were merged, de-duplicate and truncate on the way out.
StoreAndNext ==
    /\ ws_pc = "store"
    /\ cache' = IF ShouldCache(query_results)
                THEN CacheSet(cache, queries[query_idx], query_results, now)
                ELSE cache
    /\ all_results' = all_results \o query_results
    /\ IF Len(all_results \o query_results) >= num_results * 2
       THEN /\ ws_pc' = "returned"
            /\ ret' = Some(FinalResults(all_results \o query_results, num_results))
            /\ UNCHANGED query_idx
       ELSE LoopNext(all_results \o query_results)
    /\ UNCHANGED << has_api, processed_data, num_results, queries, query_results,
                    now, trace, served, evicted >>
    /\ UNCHANGED << checker_vars, other_vars >>

NextSearch ==
    \/ Tick
    \/ SearchForFactCheck
    \/ StartQuery
    \/ Strategy1
    \/ Strategy2
    \/ Strategy2TimesOut
    \/ Strategy3
    \/ StoreAndNext

SpecSearch == InitSearch /\ [][NextSearch]_vars

\* ------------------------------ SmartCache under concurrent requests

\* The requests that use the cache of one WebSearcher at the same time.
Threads == { 1, 2 }

\* The query they look up and store, and the result lists they store for it.
RaceQueries == { "q1" }

RaceData ==
    { << [ url |-> << "vnexpress.net", "/a" >>, source |-> "api" ] >>,
      << [ url |-> << "tuoitre.vn", "/b" >>, source |-> "site" ] >> }

\* A request that is in no cache operation.
IdleThread ==
    [ pc |-> "idle", query |-> "q1", data |-> << >>, timestamp |-> 0,
      result |-> "none" ]

InitRace ==
    /\ threads = [ t \in Threads |-> IdleThread ]
    /\ crawler = None
    /\ pool = None
    /\ builder = None
    /\ api = None
    /\ wrapper = None
    /\ ws_pc = "idle"
    /\ has_api = FALSE
    /\ processed_data = None
    /\ num_results = 0
    /\ queries = << >>
    /\ query_idx = 0
    /\ query_results = << >>
    /\ all_results = << >>
    /\ cache = [ q \in QueryPool |-> None ]
    /\ now = 0
    /\ trace = << >>
    /\ served = {}
    /\ evicted = {}
    /\ ret = None
    /\ pc = "cache_calls"
    /\ input_type = "text"
    /\ user_input \in { << "a", "?", "r" >> }
    /\ processed = None
    /\ search_results = None
    /\ reference_articles = << >>
    /\ submitted = << >>
    /\ pending = {}
    /\ usable = {}
    /\ reference_contents = << >>
    /\ top_scores = << >>
    /\ results = InitialResults
    /\ calls = << >>
    /\ arg_score = 0
    /\ ret_verdict = None
    /\ similarities = << >>

\* What a step of a request leaves alone besides the cache and the requests.
race_frame ==
    << checker_vars, crawler, pool, builder, api, wrapper,
       ws_pc, has_api, processed_data, num_results,
       queries, query_idx, query_results, all_results, now, trace, served,
       evicted, ret >>

\* Line 595: a request calls self.cache.get(query).
BeginGet(t) ==
    /\ threads[t].pc \in { "idle", "returned", "raised" }
    /\ \E q \in RaceQueries :
         threads' = [ threads EXCEPT ![t] =
                        [ IdleThread EXCEPT !.pc = "get_check", !.query = q ] ]
    /\ UNCHANGED << cache, race_frame >>

\* Line 620: a request calls self.cache.set(query, query_results).
BeginSet(t) ==
    /\ threads[t].pc \in { "idle", "returned", "raised" }
    /\ \E q \in RaceQueries, d \in RaceData :
         threads' = [ threads EXCEPT ![t] =
                        [ IdleThread EXCEPT !.pc = "set", !.query = q, !.data = d ] ]
    /\ UNCHANGED << cache, race_frame >>

\* Line 64: `if key in self.cache`.
GetCheck(t) ==
    /\ threads[t].pc = "get_check"
    /\ threads' = [ threads EXCEPT ![t] =
                      IF cache[threads[t].query] # None
                      THEN [ @ EXCEPT !.pc = "get_read" ]
                      ELSE [ @ EXCEPT !.pc = "returned", !.result = "miss" ] ]
    /\ UNCHANGED << cache, race_frame >>

\* Line 65: `data, timestamp = self.cache[key]`; a KeyError when another
\* request removed the entry since line 64.
GetRead(t) ==
    /\ threads[t].pc = "get_read"
    /\ threads' = [ threads EXCEPT ![t] =
                      IF cache[threads[t].query] # None
                      THEN [ @ EXCEPT !.pc = "get_compare",
                                      !.data = cache[threads[t].query][1].data,
                                      !.timestamp = cache[threads[t].query][1].timestamp ]
                      ELSE [ @ EXCEPT !.pc = "raised", !.result = "KeyError" ] ]
    /\ UNCHANGED << cache, race_frame >>

\* Lines 66-68: `if datetime.now() - timestamp < self.ttl: return data`.
GetCompare(t) ==
    /\ threads[t].pc = "get_compare"
    /\ threads' = [ threads EXCEPT ![t] =
                      IF now - threads[t].timestamp < ttl
                      THEN [ @ EXCEPT !.pc = "returned", !.result = "hit" ]
                      ELSE [ @ EXCEPT !.pc = "get_del" ] ]
    /\ UNCHANGED << cache, race_frame >>

\* Lines 70-71: `del self.cache[key]`, then return None; a KeyError when
\* another request removed the entry first.
GetDelete(t) ==
    /\ threads[t].pc = "get_del"
    /\ IF cache[threads[t].query] # None
       THEN /\ cache' = [ cache EXCEPT ![threads[t].query] = None ]
            /\ threads' = [ threads EXCEPT ![t] =
                              [ @ EXCEPT !.pc = "returned", !.result = "miss" ] ]
       ELSE /\ cache' = cache
            /\ threads' = [ threads EXCEPT ![t] =
                              [ @ EXCEPT !.pc = "raised", !.result = "KeyError" ] ]
    /\ UNCHANGED race_frame

\* Line 76: `self.cache[key] = (data, datetime.now())`, one store of a
\* complete tuple.
SetStore(t) ==
    /\ threads[t].pc = "set"
    /\ cache' = CacheSet(cache, threads[t].query, threads[t].data, now)
    /\ threads' = [ threads EXCEPT ![t] =
                      [ @ EXCEPT !.pc = "returned", !.result = "stored" ] ]
    /\ UNCHANGED race_frame

NextRace ==
    \/ Tick
    \/ \E t \in Threads : BeginGet(t)
    \/ \E t \in Threads : BeginSet(t)
    \/ \E t \in Threads : GetCheck(t)
    \/ \E t \in Threads : GetRead(t)
    \/ \E t \in Threads : GetCompare(t)
    \/ \E t \in Threads : GetDelete(t)
    \/ \E t \in Threads : SetStore(t)

SpecRace == InitRace /\ [][NextRace]_vars

\* ------------------------------------------- Crawler.extract_from_url

\* The variables of check_fact and of the searcher, at rest while a
\* component is exercised on its own.
search_state ==
    << ws_pc, has_api, processed_data, num_results, queries, query_idx,
       query_results, all_results, cache, now, trace, served, evicted, ret >>

RestIdle ==
    /\ ws_pc = "idle"
    /\ has_api = FALSE
    /\ processed_data = None
    /\ num_results = 0
    /\ queries = << >>
    /\ query_idx = 0
    /\ query_results = << >>
    /\ all_results = << >>
    /\ cache = [ q \in QueryPool |-> None ]
    /\ now = 0
    /\ trace = << >>
    /\ served = {}
    /\ evicted = {}
    /\ ret = None
    /\ pc = "component"
    /\ input_type = "text"
    /\ user_input \in { << "a", "?", "r" >> }
    /\ processed = None
    /\ search_results = None
    /\ reference_articles = << >>
    /\ submitted = << >>
    /\ pending = {}
    /\ usable = {}
    /\ reference_contents = << >>
    /\ top_scores = << >>
    /\ results = InitialResults
    /\ calls = << >>
    /\ arg_score = 0
    /\ ret_verdict = None
    /\ similarities = << >>

\* A call of Crawler.extract_from_url(url), or of
\* TextPreprocessor.extract_from_url(url), about to start.
InitCrawl ==
    /\ crawler \in { [ pc |-> p, tried |-> << >>, result |-> None ] :
                       p \in { "requests", "preprocessor" } }
    /\ threads = None
    /\ pool = None
    /\ builder = None
    /\ api = None
    /\ wrapper = None
    /\ RestIdle

\* One extraction method was called: what it met and what it returned.
Tried(method, outcome, returned) ==
    [ method |-> method, outcome |-> outcome, returned |-> returned ]

\* Lines 57-59: _try_requests_method; its attempts catch their exceptions.
TryRequests ==
    /\ crawler # None
    /\ crawler.pc = "requests"
    /\ \E outcome \in MethodOutcomes :
         LET result == PageResult(outcome)
         IN  crawler' =
               [ pc |-> IF Succeeded(result) THEN "done" ELSE "archive",
                 tried |-> Append(crawler.tried, Tried("requests", outcome, result)),
                 result |-> IF Succeeded(result) THEN result ELSE None ]
    /\ UNCHANGED << checker_vars, search_state, threads, pool, builder, api, wrapper >>

\* Lines 61-64: _try_archive_method.
TryArchive ==
    /\ crawler # None
    /\ crawler.pc = "archive"
    /\ \E outcome \in MethodOutcomes :
         LET result == PageResult(outcome)
         IN  crawler' =
               [ pc |-> IF Succeeded(result) THEN "done" ELSE "snippet",
                 tried |-> Append(crawler.tried, Tried("archive", outcome, result)),
                 result |-> IF Succeeded(result) THEN result ELSE None ]
    /\ UNCHANGED << checker_vars, search_state, threads, pool, builder, api, wrapper >>

\* Lines 66-72: _try_search_snippet_method, then None when it failed too.
TrySnippet ==
    /\ crawler # None
    /\ crawler.pc = "snippet"
    /\ \E outcome \in MethodOutcomes :
         LET result == SnippetResult(outcome)
         IN  crawler' =
               [ pc |-> "done",
                 tried |-> Append(crawler.tried, Tried("snippet", outcome, result)),
                 result |-> IF Succeeded(result) THEN result ELSE None ]
    /\ UNCHANGED << checker_vars, search_state, threads, pool, builder, api, wrapper >>

\* preprocessor.py lines 233-289: the extraction check_fact runs per
\* candidate through _process_url.
PreprocessorExtract ==
    /\ crawler # None
    /\ crawler.pc = "preprocessor"
    /\ \E outcome \in MethodOutcomes :
         LET result == PreprocessorResult(outcome)
         IN  crawler' =
               [ pc |-> "done",
                 tried |-> Append(crawler.tried, Tried("preprocessor", outcome, result)),
                 result |-> result ]
    /\ UNCHANGED << checker_vars, search_state, threads, pool, builder, api, wrapper >>

NextCrawl ==
    \/ TryRequests
    \/ TryArchive
    \/ TrySnippet
    \/ PreprocessorExtract

SpecCrawl == InitCrawl /\ [][NextCrawl]_vars

\* ------------------------------------- WebSearcher.build_smart_queries

\* build_smart_queries is about to be called on one keyword list, title and
\* full text; the searcher's cache is empty.
InitBuild ==
    /\ \E keywords \in SeqSet(KeywordPool, MaxKeywords) :
         \E title \in SeqSet(TitleWords, MaxTitleWords) :
            \E full_text \in FullTexts :
               builder = [ keywords |-> keywords, title |-> title,
                           full_text |-> full_text,
                           first |-> None, second |-> None,
                           cache_seen |-> << >> ]
    /\ threads = None
    /\ crawler = None
    /\ pool = None
    /\ api = None
    /\ wrapper = None
    /\ RestIdle

\* What a call would return if it left out the first query whenever the cache
\* holds an entry.
BuildQueries_SkipCached ==
    /\ builder # None
    /\ builder.second = None
    /\ LET returned == build_smart_queries(builder.keywords, builder.title,
                                           builder.full_text)
           kept == IF \E q \in QueryPool : cache[q] # None
                   THEN SubSeq(returned, 2, Len(returned))
                   ELSE returned
       IN  builder' = IF builder.first = None
                      THEN [ builder EXCEPT !.first = Some(kept),
                                            !.cache_seen = Append(@, cache) ]
                      ELSE [ builder EXCEPT !.second = Some(kept),
                                            !.cache_seen = Append(@, cache) ]
    /\ UNCHANGED << checker_vars, search_state, threads, crawler, pool, api,
                    wrapper >>

\* Lines 215-304: a call of build_smart_queries on the input, the first or
\* the second; it reads its three arguments only. cache_seen records the
\* cache contents each call was made under.
BuildQueries ==
    /\ builder # None
    /\ builder.second = None
    /\ LET returned == build_smart_queries(builder.keywords, builder.title,
                                           builder.full_text)
       IN  builder' = IF builder.first = None
                      THEN [ builder EXCEPT !.first = Some(returned),
                                            !.cache_seen = Append(@, cache) ]
                      ELSE [ builder EXCEPT !.second = Some(returned),
                                            !.cache_seen = Append(@, cache) ]
    /\ UNCHANGED << checker_vars, search_state, threads, crawler, pool, api,
                    wrapper >>

\* Line 620: a search of the same WebSearcher stores the results of a query
\* in the cache, before, between or after the calls.
SearchStores ==
    /\ builder # None
    /\ \E q \in RaceQueries :
         /\ cache[q] = None
         /\ \E data \in { << [ url |-> << "vnexpress.net", "/a" >>, source |-> "api" ] >> } :
              cache' = CacheSet(cache, q, data, now)
    /\ UNCHANGED << race_frame, threads >>

NextBuild ==
    \/ BuildQueries
    \/ SearchStores

SpecBuild == InitBuild /\ [][NextBuild]_vars

\* ----------------------------------- the executor of the crawling stage

\* A request has at most MaxTasks candidates left after the filter.
MaxTasks == 6

\* Line 149: ThreadPoolExecutor(max_workers=5).
max_workers_Unbounded == MaxTasks + 1
max_workers == 5

\* The tasks of the executor that are in the given state.
TasksIn(state) == { i \in DOMAIN pool.tasks : pool.tasks[i] = state }

\* Line 149: the executor is created for the candidates of one request; none
\* is submitted yet, no worker thread exists.
InitPool ==
    /\ \E n \in 1..MaxTasks :
         pool = [ pc |-> "submit",
                  tasks |-> [ i \in 1..n |-> "new" ],
                  submitted |-> << >>,
                  workers |-> 0,
                  idle |-> 0 ]
    /\ threads = None
    /\ crawler = None
    /\ builder = None
    /\ api = None
    /\ wrapper = None
    /\ RestIdle

\* Lines 150-155: executor.submit for the next article of reference_articles.
\* The executor queues the work item and starts a worker thread unless a
\* worker reported itself idle or max_workers threads exist; after the last
\* article the loop over as_completed starts.
Submit ==
    /\ pool # None
    /\ pool.pc = "submit"
    /\ LET i == Len(pool.submitted) + 1
       IN  pool' = [ pool EXCEPT
                       !.tasks[i] = "queued",
                       !.submitted = Append(@, i),
                       !.idle = IF @ > 0 THEN @ - 1 ELSE @,
                       !.workers = IF pool.idle = 0 /\ @ < max_workers THEN @ + 1 ELSE @,
                       !.pc = IF i = Len(pool.tasks) THEN "consume" ELSE "submit" ]
    /\ UNCHANGED << checker_vars, search_state, threads, crawler, builder, api, wrapper >>

\* A worker thread that runs no task takes the oldest queued work item and
\* calls _process_url.
StartTask ==
    /\ pool # None
    /\ TasksIn("queued") # {}
    /\ Cardinality(TasksIn("running")) < pool.workers
    /\ LET i == CHOOSE q \in TasksIn("queued") : \A r \in TasksIn("queued") : q <= r
       IN  pool' = [ pool EXCEPT !.tasks[i] = "running" ]
    /\ UNCHANGED << checker_vars, search_state, threads, crawler, builder, api, wrapper >>

\* _process_url returns or raises: the future is done, the worker reports
\* itself idle.
FinishTask ==
    /\ pool # None
    /\ \E i \in TasksIn("running") :
         pool' = [ pool EXCEPT !.tasks[i] = "finished", !.idle = @ + 1 ]
    /\ UNCHANGED << checker_vars, search_state, threads, crawler, builder, api, wrapper >>

\* Lines 156-176: as_completed yields a done future and the loop body handles
\* its result or its exception.
Consume ==
    /\ pool # None
    /\ pool.pc = "consume"
    /\ \E i \in TasksIn("finished") :
         pool' = [ pool EXCEPT !.tasks[i] = "consumed" ]
    /\ UNCHANGED << checker_vars, search_state, threads, crawler, builder, api, wrapper >>

\* Line 178: as_completed has yielded every future; the with block shuts the
\* executor down, waiting for its workers, and the stage ends.
ExitStage ==
    /\ pool # None
    /\ pool.pc = "consume"
    /\ TasksIn("consumed") = DOMAIN pool.tasks
    /\ pool' = [ pool EXCEPT !.pc = "exited" ]
    /\ UNCHANGED << checker_vars, search_state, threads, crawler, builder, api, wrapper >>

NextPool ==
    \/ Submit
    \/ StartTask
    \/ FinishTask
    \/ Consume
    \/ ExitStage

SpecPool == InitPool /\ [][NextPool]_vars

\* ------------------------------------- Crawler._try_requests_method

\* _try_requests_method is called with max_retries of at most MaxAttempts
\* (3 by default, line 74).
MaxAttempts == 3

\* What the loop of lines 84-149 did so far: an attempt with what it met, or
\* a call of time.sleep.
AttemptEvent(outcome) == [ kind |-> "attempt", outcome |-> Some(outcome) ]
SleepEvent == [ kind |-> "sleep", outcome |-> None ]

\* Line 148: `if attempt < max_retries - 1`, attempt counted from 0.
SleepsAfter_Always(attempt, max_retries) == TRUE
SleepsAfter(attempt, max_retries) == attempt < max_retries - 1

\* A call of _try_requests_method(url, max_retries) about to start.
InitFetch ==
    /\ \E n \in 1..MaxAttempts :
         crawler = [ pc |-> "attempt", attempt |-> 0, max_retries |-> n,
                     events |-> << >>, result |-> None ]
    /\ threads = None
    /\ pool = None
    /\ builder = None
    /\ api = None
    /\ wrapper = None
    /\ RestIdle

\* Lines 85-146: one attempt. A page with a content over 100 characters is
\* returned; a status other than 200, a short content or an exception leaves
\* the attempt failed. Lines 148-151: after a failed attempt the loop sleeps,
\* or, after the last one, ends and None is returned.
Attempt ==
    /\ crawler # None
    /\ crawler.pc = "attempt"
    /\ \E outcome \in MethodOutcomes :
         LET result == PageResult(outcome)
             events == Append(crawler.events, AttemptEvent(outcome))
         IN  crawler' =
               IF result # None
               THEN [ crawler EXCEPT !.pc = "returned", !.events = events,
                                     !.result = result ]
               ELSE IF SleepsAfter(crawler.attempt, crawler.max_retries)
               THEN [ crawler EXCEPT !.pc = "sleep", !.events = events ]
               ELSE [ crawler EXCEPT !.pc = "returned", !.events = events,
                                     !.attempt = @ + 1 ]
    /\ UNCHANGED << checker_vars, search_state, threads, pool, builder, api, wrapper >>

\* Line 149: time.sleep(random.uniform(2, 5)) returns; the loop goes on with
\* the next attempt, or ends when there is none.
Sleep ==
    /\ crawler # None
    /\ crawler.pc = "sleep"
    /\ crawler' = [ crawler EXCEPT
                      !.events = Append(@, SleepEvent),
                      !.attempt = @ + 1,
                      !.pc = IF crawler.attempt + 1 < crawler.max_retries
                             THEN "attempt" ELSE "returned" ]
    /\ UNCHANGED << checker_vars, search_state, threads, pool, builder, api, wrapper >>

NextFetch ==
    \/ Attempt
    \/ Sleep

SpecFetch == InitFetch /\ [][NextFetch]_vars

\* ----------------------------------------- Crawler._extract_content

\* A page has at most MaxDivs content-like containers.
MaxDivs == 2

\* The number of characters _extract_paragraphs yields for the <article>
\* element (None without one), for a content-like container, for the
\* domain-specific selector, and of the joined paragraphs of the page.
ArticleLens == { None, Some(0), Some(150), Some(200), Some(250) }
DivLens == { 100, 300, 600, 900 }
DomainLens == { 0, 250 }
ParagraphLens == { 0, 120 }

\* Lines 291-299: the loop over content_divs, which keeps a longer extraction
\* and stops at the first one kept that has more than 500 characters.
RECURSIVE ScanDivs(_, _)
ScanDivs(content, divs) ==
    IF divs = << >> THEN content
    ELSE IF Head(divs) > content
         THEN IF Head(divs) > 500 THEN Head(divs) ELSE ScanDivs(Head(divs), Tail(divs))
         ELSE ScanDivs(content, Tail(divs))

\* Lines 284-299: content after the container stage, which runs when content
\* is empty or shorter than 200.
AfterDivs(article, divs) ==
    LET content == IF article # None THEN article[1] ELSE 0
    IN  IF content < 200 THEN ScanDivs(content, divs) ELSE content

\* Crawler._extract_content (lines 273-314), by lengths.
extract_content(article, divs, domain_specific, paragraphs) ==
    IF article # None /\ article[1] > 200 THEN article[1]
    ELSE LET scanned == AfterDivs(article, divs)
             specific == IF scanned < 200 THEN domain_specific ELSE scanned
         IN  IF specific < 200 THEN paragraphs ELSE specific

\* _extract_content is about to run on a parsed page.
InitExtract ==
    /\ \E article \in ArticleLens, divs \in SeqSet(DivLens, MaxDivs),
          domain_specific \in DomainLens, paragraphs \in ParagraphLens :
         crawler = [ pc |-> "extract_content", article |-> article, divs |-> divs,
                     domain_specific |-> domain_specific, paragraphs |-> paragraphs,
                     scanned |-> None, content |-> None ]
    /\ threads = None
    /\ pool = None
    /\ builder = None
    /\ api = None
    /\ wrapper = None
    /\ RestIdle

\* Lines 273-314: _extract_content returns; scanned records the content it
\* held after the container stage, when that stage ran.
ExtractContent ==
    /\ crawler # None
    /\ crawler.pc = "extract_content"
    /\ crawler' =
         [ crawler EXCEPT
             !.pc = "done",
             !.scanned = IF crawler.article # None /\ crawler.article[1] >= 200
                         THEN None
                         ELSE Some(AfterDivs(crawler.article, crawler.divs)),
             !.content = Some(extract_content(crawler.article, crawler.divs,
                                              crawler.domain_specific,
                                              crawler.paragraphs)) ]
    /\ UNCHANGED << checker_vars, search_state, threads, pool, builder, api, wrapper >>

NextExtract == ExtractContent

SpecExtract == InitExtract /\ [][NextExtract]_vars

\* --------------------------------------------------- api.py, /api/check

\* The classes of the exceptions the try block of the handler can raise:
\* HTTPException from line 128, ValueError and TypeError from building the
\* JSON response of a result that holds a NaN or a value json cannot encode.
ExceptionBases ==
    [ HTTPException |-> { "HTTPException", "Exception" },
      ValueError |-> { "ValueError", "Exception" },
      TypeError |-> { "TypeError", "Exception" } ]

\* Lines 151-159: the except clauses, tried in order; each raises an
\* HTTPException that FastAPI turns into the response.
HandlerStatus(exc, raised_status) ==
    IF "ValueError" \in ExceptionBases[exc] THEN 400
    ELSE IF "Exception" \in ExceptionBases[exc] THEN 500
    ELSE raised_status

\* A validated request reaches the handler; fact_checker_instance is set by
\* the lifespan manager (line 26) or still None.
InitApi ==
    /\ api \in { [ pc |-> "received", initialised |-> b, exc |-> None, status |-> None,
                   body |-> None ] : b \in BOOLEAN }
    /\ pc = "not_called"
    /\ input_type = "text"
    /\ user_input \in { << "a", "?", "r" >> }
    /\ processed = None
    /\ search_results = None
    /\ reference_articles = << >>
    /\ submitted = << >>
    /\ pending = {}
    /\ usable = {}
    /\ reference_contents = << >>
    /\ top_scores = << >>
    /\ results = InitialResults
    /\ calls = << >>
    /\ arg_score = 0
    /\ ret_verdict = None
    /\ similarities = << >>
    /\ threads = None
    /\ crawler = None
    /\ pool = None
    /\ builder = None
    /\ wrapper = None
    /\ ws_pc = "idle"
    /\ has_api = FALSE
    /\ processed_data = None
    /\ num_results = 0
    /\ queries = << >>
    /\ query_idx = 0
    /\ query_results = << >>
    /\ all_results = << >>
    /\ cache = [ q \in QueryPool |-> None ]
    /\ now = 0
    /\ trace = << >>
    /\ served = {}
    /\ evicted = {}
    /\ ret = None

\* Lines 126-130: fact_checker_instance is None; HTTPException(503) is raised
\* inside the try and meets the except clauses.
ApiRejects ==
    /\ api # None
    /\ api.pc = "received"
    /\ ~api.initialised
    /\ api' = [ api EXCEPT !.pc = "responded",
                           !.exc = Some("HTTPException"),
                           !.status = Some(HandlerStatus("HTTPException", 503)) ]
    /\ UNCHANGED << checker_vars, search_state, threads, crawler, pool, builder,
                    wrapper >>

\* Lines 138-143: the handler calls fact_checker_instance.check_fact.
ApiCalls ==
    /\ api # None
    /\ api.pc = "received"
    /\ api.initialised
    /\ pc = "not_called"
    /\ pc' = "start"
    /\ api' = [ api EXCEPT !.pc = "running" ]
    /\ UNCHANGED << pipeline_vars, arg_score, ret_verdict, similarities >>
    /\ UNCHANGED << search_state, threads, crawler, pool, builder, wrapper >>

\* Lines 145-149: check_fact returned; the result is formatted and sent with
\* status 200.
ApiResponds ==
    /\ api # None
    /\ api.pc = "running"
    /\ pc = "done"
    /\ api' = [ api EXCEPT !.pc = "responded", !.status = Some(200),
                           !.body = Some(FormatResult(results)) ]
    /\ UNCHANGED << checker_vars, search_state, threads, crawler, pool, builder,
                    wrapper >>

\* Lines 145-159: formatting the result or building the JSON response raises.
ApiRaises ==
    /\ api # None
    /\ api.pc = "running"
    /\ pc = "done"
    /\ \E exc \in { "ValueError", "TypeError" } :
         api' = [ api EXCEPT !.pc = "responded", !.exc = Some(exc),
                             !.status = Some(HandlerStatus(exc, 500)) ]
    /\ UNCHANGED << checker_vars, search_state, threads, crawler, pool, builder,
                    wrapper >>

NextApi ==
    \/ ApiRejects
    \/ ApiCalls
    \/ ApiResponds
    \/ ApiRaises
    \/ Next

SpecApi == InitApi /\ [][NextApi]_vars

\* ------------------------------------- web_searcher.py, retry_with_backoff

\* The decorator is applied with retries of at most MaxRetries (3 at line
\* 179).
MaxRetries == 3

\* backoff_in_seconds of line 179, and random.uniform(0, 1) at its ends and
\* its middle; waits are in tenths of a second.
backoff_in_seconds == 2
Jitters == { 0, 5, 10 }

\* Line 33: backoff_in_seconds * 2 ** x + random.uniform(0, 1).
Wait(x, jitter) == backoff_in_seconds * (2 ^ x) * 10 + jitter

\* Line 30: `if x == retries - 1`.
IsLastAttempt_Never(x, retries) == FALSE
IsLastAttempt(x, retries) == x = retries - 1

\* What the wrapped function does in one invocation: it returns a response or
\* raises (fetch_url: a timeout, raise_for_status).
FuncOutcomes ==
    { [ kind |-> "returned", value |-> v ] : v \in { "response_a", "response_b" } } \cup
    { [ kind |-> "raised", value |-> e ] : e \in { "Timeout", "HTTPError" } }

CallEvent(outcome) == [ kind |-> "call", outcome |-> Some(outcome), wait |-> 0 ]
WaitEvent(wait) == [ kind |-> "sleep", outcome |-> None, wait |-> wait ]

\* The wrapper is called: x = 0 (line 25).
InitRetry ==
    /\ \E n \in 1..MaxRetries :
         wrapper = [ pc |-> "loop", retries |-> n, x |-> 0, events |-> << >>,
                     wait |-> 0, returned |-> None, raised |-> None ]
    /\ threads = None
    /\ crawler = None
    /\ pool = None
    /\ builder = None
    /\ api = None
    /\ RestIdle

\* Lines 26-34: one pass of the loop up to time.sleep. func returns and the
\* wrapper returns its result, or func raises: on the last attempt the
\* exception is raised again, otherwise the wait is computed and the wrapper
\* sleeps.
Invoke ==
    /\ wrapper # None
    /\ wrapper.pc = "loop"
    /\ \E outcome \in FuncOutcomes, jitter \in Jitters :
         LET events == Append(wrapper.events, CallEvent(outcome))
         IN  wrapper' =
               IF outcome.kind = "returned"
               THEN [ wrapper EXCEPT !.pc = "returned", !.events = events,
                                     !.returned = Some(outcome.value) ]
               ELSE IF IsLastAttempt(wrapper.x, wrapper.retries)
               THEN [ wrapper EXCEPT !.pc = "raised", !.events = events,
                                     !.raised = Some(outcome.value) ]
               ELSE [ wrapper EXCEPT !.pc = "sleep", !.events = events,
                                     !.wait = Wait(wrapper.x, jitter) ]
    /\ UNCHANGED << checker_vars, search_state, threads, crawler, pool, builder, api >>

\* Lines 35-36 and 26: time.sleep(wait) returns, x is incremented, and the
\* loop goes on while x < retries; past it the wrapper returns None.
WaitOver ==
    /\ wrapper # None
    /\ wrapper.pc = "sleep"
    /\ wrapper' = [ wrapper EXCEPT
                      !.events = Append(@, WaitEvent(wrapper.wait)),
                      !.x = @ + 1,
                      !.wait = 0,
                      !.pc = IF wrapper.x + 1 < wrapper.retries THEN "loop" ELSE "returned" ]
    /\ UNCHANGED << checker_vars, search_state, threads, crawler, pool, builder, api >>

NextRetry ==
    \/ Invoke
    \/ WaitOver

SpecRetry == InitRetry /\ [][NextRetry]_vars

\* ----------------------------------------------------------------- claims

FinalStatuses ==
    { "error", "input_too_short", "no_references", "no_other_references",
      "crawl_failed", "success" }

Called(name) == \E i \in 1..Len(calls) : calls[i] = name

\* The part of a URL before its query string and fragment, read off the URL
\* itself: everything before the first "?" or "#".
PagePart(url) ==
    LET marks == { i \in 1..Len(url) : url[i] \in { "?", "#" } }
    IN  IF marks = {} THEN url
        ELSE SubSeq(url, 1, (CHOOSE i \in marks : \A j \in marks : i <= j) - 1)

SamePage(u, v) == PagePart(u) = PagePart(v)

\* C1: whatever each stage returns or raises, check_fact ends by returning the
\* result record, and the status of the returned record is one of error,
\* input_too_short, no_references, no_other_references, crawl_failed, success;
\* it is never left at 'processing'.
C1_ReturnsFinalStatus ==
    /\ pc \in { "start", "search", "crawl", "done" }
    /\ pc = "done" => results.status \in FinalStatuses
    /\ results.error # None => pc = "done" /\ results.status = "error"

\* A stage raised after candidates were crawled, and the record was returned
\* with status error.
C1_Witness ==
    /\ pc = "done"
    /\ results.status = "error"
    /\ results.error = Some("exception")
    /\ reference_contents # << >>

\* C2 as stated: once one candidate is crawled, check_fact always ends with
\* status success carrying a verdict.
C2_AlwaysSuccessAfterCrawl ==
    (pc = "done" /\ reference_contents # << >>) =>
        (results.status = "success" /\ results.verdict # None)

\* C2, amended: once one candidate is crawled, check_fact calls the scorer; if
\* the scorer returns, verdict generation follows and the status is success
\* with a verdict; if the scorer raises, the status is error; none of
\* no_references, no_other_references, crawl_failed, input_too_short is
\* produced after one body was crawled.
C2_SuccessUnlessScorerRaises ==
    /\ reference_contents # << >> =>
         results.status \in { "processing", "success", "error" }
    /\ (pc = "done" /\ reference_contents # << >>) =>
         /\ Called("calculate_similarity_batch")
         /\ \/ /\ results.status = "success"
               /\ results.verdict # None
               /\ SubSeq(calls, Len(calls) - 1, Len(calls)) =
                     << "calculate_similarity_batch", "generate_verdict" >>
            \/ /\ results.status = "error"
               /\ results.verdict = None
               /\ calls[Len(calls)] = "calculate_similarity_batch"

\* Two candidates, one crawled and one dropped, ended in success with a verdict.
C2_Witness ==
    /\ pc = "done"
    /\ Len(reference_articles) = 2
    /\ Len(reference_contents) = 1
    /\ results.status = "success"
    /\ results.verdict # None

C4_NoOtherReferences ==
    /\ ( /\ input_type = "url"
         /\ search_results # None
         /\ search_results[1] # << >>
         /\ \A i \in 1..Len(search_results[1]) :
               SamePage(search_results[1][i].url, user_input) )
       => /\ pc = "done"
          /\ results.status = "no_other_references"
          /\ results.average_similarity = Some(50)
          /\ results.verdict # None
          /\ results.verdict[1].verdict = "UNCERTAIN"
          /\ results.verdict[1].similarity_score = 50
          /\ results.top_references = Some(<< >>)
          /\ FormatResult(results).references = Some(<< >>)
          /\ submitted = << >>
          /\ reference_contents = << >>
    /\ results.status = "no_other_references" => input_type = "url"

\* Two candidates that differ from the input URL only by query string and
\* fragment were the whole search result.
C4_Witness ==
    /\ input_type = "url"
    /\ search_results # None
    /\ Len(search_results[1]) = 2
    /\ \A i \in 1..2 : /\ SamePage(search_results[1][i].url, user_input)
                       /\ search_results[1][i].url # user_input
    /\ results.status = "no_other_references"

\* C5: check_fact ends with status crawl_failed exactly when at least one
\* candidate remained after the self-reference filter and no extraction
\* returned a usable body (each returned None, returned empty content, or
\* raised); the scorer is not called then.
C5_CrawlFailedIff ==
    pc = "done" =>
        /\ results.status = "crawl_failed" <=>
              (reference_articles # << >> /\ pending = {} /\ usable = {})
        /\ results.status = "crawl_failed" =>
              /\ ~Called("calculate_similarity_batch")
              /\ ~Called("generate_verdict")
              /\ results.verdict = None

\* Two candidates were submitted and both extractions failed.
C5_Witness ==
    /\ pc = "done"
    /\ Len(submitted) = 2
    /\ usable = {}
    /\ results.status = "crawl_failed"

\* C6: if preprocessing returns nothing the status is error; if it returns no
\* keyword and a full text shorter than 15 characters the status is
\* input_too_short; the search client is not called in either case.
C6_PreprocessFailures ==
    /\ (calls # << >> /\ processed = None) =>
          /\ pc = "done"
          /\ results.status = "error"
          /\ ~Called("search_for_fact_check")
          /\ search_results = None
    /\ (processed # None /\ processed[1].keywords = 0 /\ processed[1].full_text_len < 15) =>
          /\ pc = "done"
          /\ results.status = "input_too_short"
          /\ ~Called("search_for_fact_check")
          /\ search_results = None

\* Preprocessing returned no keyword and 14 characters of text.
C6_Witness ==
    /\ processed # None
    /\ processed[1].keywords = 0
    /\ processed[1].full_text_len = 14
    /\ results.status = "input_too_short"

\* The candidates of found that are not the page of url, in their order.
RECURSIVE OtherPages(_, _)
OtherPages(found, url) ==
    IF found = << >> THEN << >>
    ELSE IF SamePage(Head(found).url, url) THEN OtherPages(Tail(found), url)
         ELSE << Head(found) >> \o OtherPages(Tail(found), url)

\* C7: for a url input, no candidate that is the input page (query string and
\* fragment stripped from both) is submitted to crawling or listed as a
\* reference, and every other candidate is kept; for a text input no candidate
\* is filtered.
C7_SelfReferenceFilter ==
    (search_results # None /\ search_results[1] # << >>) =>
        /\ input_type = "url" =>
              /\ reference_articles = OtherPages(search_results[1], user_input)
              /\ \A i \in 1..Len(submitted) : ~SamePage(submitted[i], user_input)
              /\ \A i \in 1..Len(reference_contents) :
                    ~SamePage(reference_contents[i].url, user_input)
              /\ results.top_references # None =>
                    \A i \in 1..Len(results.top_references[1]) :
                       ~SamePage(results.top_references[1][i].url, user_input)
        /\ input_type = "text" => reference_articles = search_results[1]
        /\ reference_articles # << >> =>
              submitted = [ i \in 1..Len(reference_articles) |-> reference_articles[i].url ]

\* A url input found its own page under another URL and one other page; only
\* the other page was crawled and listed.
C7_Witness ==
    /\ input_type = "url"
    /\ user_input = << "a", "?", "r" >>
    /\ search_results # None
    /\ Len(search_results[1]) = 2
    /\ search_results[1][1].url = << "a", "#", "f", "?", "r" >>
    /\ submitted = << << "b" >> >>
    /\ results.status = "success"
    /\ Len(results.top_references[1]) = 1

\* The score a top result contributes according to the claim: 1 - score for a
\* refuting title with a raw score above 0.6, else the raw score.
ClaimedAdjusted(r) ==
    IF HasRefutation(r.title) /\ r.overall_similarity > 60
    THEN 100 - r.overall_similarity
    ELSE r.overall_similarity

\* C8: on success there is one adjusted score for each of the (at most 3) top
\* references, in their order; it is 1 - score when the title contains a
\* refutation keyword and the raw score is strictly above 0.6, else the raw
\* score; with a top title containing 'tin gia' and raw score 0.9 the score
\* passed to generate_verdict is 0.1 and the verdict is HIGHLY_LIKELY_FALSE.
C8_RefutationAdjustment ==
    (pc = "done" /\ results.status = "success") =>
        LET details == results.similarity_details[1]
            n == IF Len(details) < 3 THEN Len(details) ELSE 3
        IN  /\ Len(top_scores) = n
            /\ Len(results.top_references[1]) = n
            /\ \A k \in 1..n :
                  /\ results.top_references[1][k].url = details[k].url
                  /\ top_scores[k] = ClaimedAdjusted(details[k])
            /\ ( /\ \E i \in 1..Len(details[1].title) :
                       LowerPhrase(details[1].title[i]) = "tin gia"
                 /\ details[1].overall_similarity = 90 )
               => /\ results.highest_similarity = Some(10)
                  /\ results.verdict[1].similarity_score = 10
                  /\ results.verdict[1].verdict = "HIGHLY_LIKELY_FALSE"

\* Four references were scored; the top one refutes with 0.9 and became 0.1,
\* one of the top 3 refutes with exactly 0.6 and kept its score.
C8_Witness ==
    /\ pc = "done"
    /\ results.status = "success"
    /\ Len(results.similarity_details[1]) = 4
    /\ HasRefutation(results.similarity_details[1][1].title)
    /\ results.similarity_details[1][1].overall_similarity = 90
    /\ top_scores[1] = 10
    /\ HasRefutation(results.similarity_details[1][3].title)
    /\ results.similarity_details[1][3].overall_similarity = 60
    /\ top_scores[3] = 60
    /\ results.verdict[1].verdict = "HIGHLY_LIKELY_FALSE"

RECURSIVE MaxOf(_)
MaxOf(scores) ==
    IF Len(scores) = 1 THEN scores[1]
    ELSE LET m == MaxOf(Tail(scores)) IN IF scores[1] >= m THEN scores[1] ELSE m

\* C9: the score passed to generate_verdict is the highest of the adjusted
\* scores of the top-3 references.
C9_VerdictFromMaxAdjusted ==
    (pc = "done" /\ results.status = "success") =>
        /\ results.verdict[1].similarity_score = MaxOf(top_scores)
        /\ results.highest_similarity = Some(MaxOf(top_scores))

\* C10: generate_verdict(score) returns HIGHLY_LIKELY_TRUE for score >= 0.85,
\* LIKELY_TRUE for 0.70 <= score < 0.85, UNCERTAIN for 0.50 <= score < 0.70,
\* LIKELY_FALSE for 0.30 <= score < 0.50 and HIGHLY_LIKELY_FALSE below 0.30,
\* and reports the score it was given.
C10_VerdictBands ==
    pc = "verdict_returned" =>
        /\ ret_verdict # None
        /\ ret_verdict[1].similarity_score = arg_score
        /\ ret_verdict[1].verdict =
              ( CASE arg_score >= 85 -> "HIGHLY_LIKELY_TRUE"
                  [] arg_score >= 70 /\ arg_score < 85 -> "LIKELY_TRUE"
                  [] arg_score >= 50 /\ arg_score < 70 -> "UNCERTAIN"
                  [] arg_score >= 30 /\ arg_score < 50 -> "LIKELY_FALSE"
                  [] arg_score < 30 -> "HIGHLY_LIKELY_FALSE" )

\* generate_verdict returned LIKELY_TRUE for exactly 0.70.
C10_Witness ==
    /\ pc = "verdict_returned"
    /\ arg_score = 70
    /\ ret_verdict[1].verdict = "LIKELY_TRUE"

\* The place of a verdict code in the order HIGHLY_LIKELY_FALSE < LIKELY_FALSE
\* < UNCERTAIN < LIKELY_TRUE < HIGHLY_LIKELY_TRUE.
BandRank(code) ==
    CASE code = "HIGHLY_LIKELY_FALSE" -> 1
      [] code = "LIKELY_FALSE" -> 2
      [] code = "UNCERTAIN" -> 3
      [] code = "LIKELY_TRUE" -> 4
      [] code = "HIGHLY_LIKELY_TRUE" -> 5

\* The confidences a band can report: twice the distance from 0.5 of the
\* scores of the band.
ConfidenceOfBand(code, c) ==
    CASE code = "HIGHLY_LIKELY_FALSE" -> c > 40
      [] code = "LIKELY_FALSE" -> c > 0 /\ c <= 40
      [] code = "UNCERTAIN" -> c >= 0 /\ c < 40
      [] code = "LIKELY_TRUE" -> c >= 40 /\ c < 70
      [] code = "HIGHLY_LIKELY_TRUE" -> c >= 70

\* C11: for any two scores s1 < s2, the band of generate_verdict(s1) is at or
\* below the band of generate_verdict(s2) in the order HIGHLY_LIKELY_FALSE <
\* LIKELY_FALSE < UNCERTAIN < LIKELY_TRUE < HIGHLY_LIKELY_TRUE, and the
\* confidence reported with each code is one of the confidences of that band.
C11_VerdictMonotone ==
    pc = "verdict_returned" =>
        /\ ConfidenceOfBand(ret_verdict[1].verdict, ret_verdict[1].confidence)
        /\ \A s2 \in (0 - MaxScore)..MaxScore :
              arg_score < s2 =>
                  BandRank(ret_verdict[1].verdict) <=
                      BandRank(generate_verdict(s2).verdict)

\* generate_verdict returned UNCERTAIN for 0.69, one step below the score
\* 0.70 of the next band.
C11_Witness ==
    /\ pc = "verdict_returned"
    /\ arg_score = 69
    /\ ret_verdict[1].verdict = "UNCERTAIN"
    /\ generate_verdict(arg_score + 1).verdict = "LIKELY_TRUE"

Clamp01(c) == IF c < 0 THEN 0 ELSE IF c > One THEN One ELSE c

\* C12: for every score that reaches generate_verdict in check_fact, the
\* returned confidence is abs(score - 0.5) * 2 clamped to [0,1]: it is never
\* below 0 or above 1.
C12_ConfidenceClamped ==
    (pc = "done" /\ results.status = "success") =>
        LET v == results.verdict[1]
        IN  /\ v.confidence = Clamp01(Abs(v.similarity_score - HalfScore) * 2)
            /\ v.confidence >= 0
            /\ v.confidence <= One

\* The state C13 is about: check_fact returned for a text input with
\* DEFAULT_NUM_RESULTS crawled candidates that all scored about 0.9.
HappyReturned ==
    /\ pc = "done"
    /\ input_type = "text"
    /\ Len(reference_contents) = DEFAULT_NUM_RESULTS
    /\ results.similarity_details # None
    /\ \A i \in 1..DEFAULT_NUM_RESULTS :
          results.similarity_details[1][i].overall_similarity \in HappyScores

C14_SearchNeverRaises ==
    /\ ws_pc # "raised"
    /\ (ws_pc = "returned" /\ all_results = << >>) => ret = Some(<< >>)

\* C15: the list search_for_fact_check returns holds each normalized URL (the
\* URL without query string and fragment) once.
C15_NormalizedUrlOnce ==
    ws_pc = "returned" =>
        \A i, j \in 1..Len(ret[1]) :
            i # j => ~SamePage(ret[1][i].url, ret[1][j].url)

\* The position in merged of the first result with the URL of r.
FirstFound(merged, r) ==
    CHOOSE i \in 1..Len(merged) :
        /\ merged[i].url = r.url
        /\ \A j \in 1..(i - 1) : merged[j].url # r.url

\* C16: the returned list never has more than num_results entries, whatever
\* queries, strategies and cache hits contributed; its entries are the
\* first-found results of the first URLs of the merged results, in merge
\* order.
C16_TruncatedFirstFound ==
    ws_pc = "returned" =>
        LET out == ret[1]
        IN  /\ Len(out) <= num_results
            /\ \A k \in 1..Len(out) :
                  /\ \E i \in 1..Len(all_results) : all_results[i].url = out[k].url
                  /\ out[k] = all_results[FirstFound(all_results, out[k])]
                  /\ Cardinality({ all_results[j].url :
                                     j \in 1..(FirstFound(all_results, out[k]) - 1) }) = k - 1

\* More URLs were merged than asked for, one of them by two strategies, and
\* num_results entries were returned.
C16_Witness ==
    /\ ws_pc = "returned"
    /\ Len(ret[1]) = num_results
    /\ Cardinality({ all_results[j].url : j \in 1..Len(all_results) }) > num_results
    /\ \E i, j \in 1..Len(all_results) :
          /\ i < j
          /\ all_results[i].url = all_results[j].url
          /\ all_results[i].source # all_results[j].source
          /\ \E k \in 1..Len(ret[1]) : ret[1][k] = all_results[i]

\* urlparse(url).netloc
Host(url) == url[1]

\* C17: every candidate the search client returns or caches has a URL whose
\* host is one of the trusted domains, also when a provider hands back a URL
\* that carries a trusted domain name elsewhere.
C17_TrustedHosts ==
    /\ ret # None =>
          \A i \in 1..Len(ret[1]) : Host(ret[1][i].url) \in trusted_sources
    /\ \A q \in QueryPool :
          cache[q] # None =>
              \A i \in 1..Len(cache[q][1].data) :
                  Host(cache[q][1].data[i].url) \in trusted_sources

StrategyRank(strategy) ==
    CASE strategy = "api" -> 1
      [] strategy = "parallel" -> 2
      [] strategy = "scraping" -> 3

\* C18: for each query not served from the cache the strategies run in the
\* order search API, parallel site search, scraping; a later strategy is
\* invoked only while the query has fewer than num_results results, and no
\* strategy is invoked for a query served from the cache.
C18_StrategyOrder ==
    \A i \in 1..Len(trace) :
        /\ trace[i].query \notin served
        /\ trace[i].strategy = "api" => has_api
        /\ trace[i].strategy \in { "parallel", "scraping" } =>
              trace[i].had < num_results
        /\ (trace[i].strategy = "parallel" /\ has_api) =>
              \E j \in 1..(i - 1) :
                  trace[j].query = trace[i].query /\ trace[j].strategy = "api"
        /\ trace[i].strategy = "scraping" =>
              \E j \in 1..(i - 1) :
                  trace[j].query = trace[i].query /\ trace[j].strategy = "parallel"
        /\ \A j \in 1..(i - 1) :
              \/ trace[j].query < trace[i].query
              \/ /\ trace[j].query = trace[i].query
                 /\ StrategyRank(trace[j].strategy) < StrategyRank(trace[i].strategy)

\* The search API gave one result of the two asked for, the parallel search
\* none, and scraping was invoked for the same query.
C18_Witness ==
    /\ num_results = 2
    /\ Len(trace) >= 3
    /\ trace[1] = [ query |-> 1, strategy |-> "api", had |-> 0, got |-> 1 ]
    /\ trace[2] = [ query |-> 1, strategy |-> "parallel", had |-> 1, got |-> 0 ]
    /\ trace[3].query = 1
    /\ trace[3].strategy = "scraping"

\* C19: a failing query or strategy is skipped and the results obtained so far
\* are kept: with num_results >= 1, search_for_fact_check returns an empty
\* list only if every strategy invoked gave nothing and no query was served
\* from the cache.
C19_FailuresSkipped ==
    /\ (ws_pc \in { "returned", "raised" }
          /\ num_results >= 1
          /\ (all_results # << >> \/ query_results # << >>)) =>
              (ret # None /\ ret[1] # << >>)
    /\ (ws_pc = "returned" /\ num_results >= 1 /\ ret[1] = << >>) =>
          /\ served = {}
          /\ \A i \in 1..Len(trace) : trace[i].got = 0

Fresh(query) == cache[query] # None /\ now - cache[query][1].timestamp < ttl

\* C20: the cache never holds an empty result list: an entry is written only
\* with the results of the current query and only when there is at least
\* one; a query whose entry is within the TTL is served from the cache, with
\* no search strategy invoked for it.
C20_CacheNonEmptyAndServed ==
    [][ /\ \A q \in QueryPool :
              cache'[q] # None => cache'[q][1].data # << >>
        /\ \A q \in QueryPool :
              (cache'[q] # cache[q] /\ cache'[q] # None) =>
                  /\ ws_pc = "store"
                  /\ q = queries[query_idx]
                  /\ cache'[q] = Some([ data |-> query_results, timestamp |-> now ])
        /\ (ws_pc = "query" /\ Fresh(queries[query_idx])) =>
              /\ served' = served \cup { query_idx }
              /\ trace' = trace
              /\ ws_pc' \in { "query", "returned" }
              /\ all_results' = all_results \o cache[queries[query_idx]][1].data
      ]_vars

\* A search was answered from an entry written 12 hours earlier, no strategy
\* invoked.
C20_Witness ==
    /\ ws_pc = "returned"
    /\ served = { 1 }
    /\ trace = << >>
    /\ cache[queries[1]] # None
    /\ now - cache[queries[1]][1].timestamp = 1
    /\ ret = Some(FinalResults(cache[queries[1]][1].data, num_results))
    /\ ret[1] # << >>

\* C21: a read of the cache returns the stored list only while the age of
\* the entry is strictly below the TTL of 24 hours (2 units of the clock); a
\* read of an entry whose age has reached the TTL is a miss and removes the
\* entry; an entry is removed in no other way.
C21_LazyExpiry ==
    [][ /\ \A q \in QueryPool :
              (cache[q] # None /\ cache'[q] = None) =>
                  /\ ws_pc = "query"
                  /\ q = queries[query_idx]
                  /\ now - cache[q][1].timestamp >= 2
        /\ (ws_pc = "query" /\ cache[queries[query_idx]] # None) =>
              LET entry == cache[queries[query_idx]][1]
              IN  IF now - entry.timestamp < 2
                  THEN /\ all_results' = all_results \o entry.data
                       /\ cache' = cache
                  ELSE /\ all_results' = all_results
                       /\ cache'[queries[query_idx]] = None
                       /\ query_idx \notin served'
                       /\ ws_pc' \in { "api", "parallel", "scraping", "store" }
      ]_vars

\* The read of the first query found an entry as old as the TTL, removed it,
\* and the search wrote the entry anew.
C21_Witness ==
    /\ ws_pc = "returned"
    /\ 1 \in evicted
    /\ 1 \notin served
    /\ cache[queries[1]] # None
    /\ cache[queries[1]][1].timestamp = now
    /\ now = 2

\* C22: with several requests running get and set on the shared cache at the
\* same time, in any interleaving, no cache operation raises, and a read that
\* returns data returns a list some set stored whole.
C22_ConcurrentCacheSafe ==
    threads # None =>
        \A t \in Threads :
            /\ threads[t].result # "KeyError"
            /\ threads[t].result = "hit" => threads[t].data \in RaceData

\* C23: every article an extraction returns (direct fetch, archive snapshot,
\* search snippet, and the extraction check_fact calls per candidate) has a
\* body of at least 100 characters as returned; a shorter body is reported
\* as a failed crawl.
C23_BodyAtLeast100 ==
    crawler # None =>
        \A i \in 1..Len(crawler.tried) :
            crawler.tried[i].returned # None =>
                TextLen(crawler.tried[i].returned[1].content) >= 100

\* The methods extract_from_url has called, in order.
MethodsTried == [ i \in 1..Len(crawler.tried) |-> crawler.tried[i].method ]

\* C24: Crawler.extract_from_url tries direct fetch, archive snapshot and
\* search snippet in that order, returns the result of the first method that
\* succeeds without calling a later one, treats an exception inside a method
\* as that method failing, and returns nothing only when all three failed.
C24_FallbackChain ==
    (crawler # None /\ crawler.pc # "preprocessor"
        /\ (crawler.tried # << >> => crawler.tried[1].method # "preprocessor")) =>
        /\ MethodsTried = SubSeq(<< "requests", "archive", "snippet" >>, 1,
                                 Len(crawler.tried))
        /\ \A i \in 1..Len(crawler.tried) :
              /\ crawler.tried[i].outcome.kind = "exception" =>
                    crawler.tried[i].returned = None
              /\ i < Len(crawler.tried) => crawler.tried[i].returned = None
        /\ crawler.pc = "done" =>
              /\ crawler.result = crawler.tried[Len(crawler.tried)].returned
              /\ crawler.result = None => Len(crawler.tried) = 3
        /\ crawler.pc # "done" => crawler.result = None

\* Direct fetch raised, the archive had no snapshot, and the search snippet
\* gave the returned article.
C24_Witness ==
    /\ crawler # None
    /\ crawler.pc = "done"
    /\ Len(crawler.tried) = 3
    /\ crawler.tried[1].outcome.kind = "exception"
    /\ crawler.tried[2].outcome.kind = "no_page"
    /\ crawler.tried[3].method = "snippet"
    /\ crawler.result # None
    /\ crawler.result = crawler.tried[3].returned

\* C25: calculate_similarity_batch returns one entry per input text, the index
\* fields of its entries are a permutation of the input positions, each entry
\* carries the similarity computed for the text at its index, and in the
\* result of a successful check every crawled article appears exactly once,
\* with the similarity computed for its own body.
C25_ScoresAttachedByIndex ==
    (pc = "done" /\ results.status = "success") =>
        LET n == Len(reference_contents)
            batch == calculate_similarity_batch(similarities)
            details == results.similarity_details[1]
        IN  /\ Len(similarities) = n
            /\ Len(batch) = n
            /\ { batch[k].index : k \in 1..n } = 1..n
            /\ \A k \in 1..n : batch[k].similarity = similarities[batch[k].index]
            /\ Len(details) = n
            /\ \A i \in 1..n :
                  /\ Cardinality({ k \in 1..n : details[k].url = reference_contents[i].url }) = 1
                  /\ \A k \in 1..n :
                        details[k].url = reference_contents[i].url =>
                            /\ details[k].overall_similarity = similarities[i]
                            /\ details[k].title = reference_contents[i].title

\* A successful check of three articles whose similarities arrive in ascending
\* order, so that the sorted batch reverses the input order.
C25_Witness ==
    /\ pc = "done"
    /\ results.status = "success"
    /\ similarities = << 60, 61, 90 >>
    /\ results.similarity_details[1][1].url = reference_contents[3].url
    /\ results.similarity_details[1][1].overall_similarity = 90
    /\ results.similarity_details[1][3].url = reference_contents[1].url

\* C26: every score the batch scorer returns and every similarity reported in
\* the result of a successful check (overall_similarity of every article,
\* highest_similarity, similarity of every top reference) lies in [0, 1],
\* also when a cosine similarity is negative.
C26_SimilaritiesInUnitInterval ==
    (pc = "done" /\ results.status = "success") =>
        LET batch == calculate_similarity_batch(similarities)
            details == results.similarity_details[1]
            top == results.top_references[1]
        IN  /\ \A k \in 1..Len(batch) : batch[k].similarity \in 0..One
            /\ \A k \in 1..Len(details) : details[k].overall_similarity \in 0..One
            /\ results.highest_similarity[1] \in 0..One
            /\ \A k \in 1..Len(top) : top[k].similarity \in 0..One

LongStrings(strs) == SelectSeq(strs, LAMBDA x : StrLen(x) > 3)
EmergencyOf(keywords, title) ==
    LET source == IF LongStrings(Split(title)) # << >> THEN Split(title) ELSE keywords
        long == LongStrings(source)
    IN  Join(SubSeq(long, 1, IF Len(long) > 3 THEN 3 ELSE Len(long)))

C29_BoundedPoolRunsAll ==
    pool # None =>
        /\ Cardinality(TasksIn("running")) <= 5
        /\ \A i, j \in 1..Len(pool.submitted) :
              pool.submitted[i] = pool.submitted[j] => i = j
        /\ { pool.submitted[i] : i \in 1..Len(pool.submitted) }
              = { i \in DOMAIN pool.tasks : pool.tasks[i] # "new" }
        /\ pool.pc # "submit" =>
              { pool.submitted[i] : i \in 1..Len(pool.submitted) } = DOMAIN pool.tasks
        /\ pool.pc = "exited" =>
              \A i \in DOMAIN pool.tasks : pool.tasks[i] \in { "finished", "consumed" }

\* Six candidates: five extractions run while the sixth waits in the queue.
C29_Witness ==
    /\ pool # None
    /\ Len(pool.tasks) = 6
    /\ Cardinality(TasksIn("running")) = 5
    /\ TasksIn("queued") # {}

\* C30: whatever the other crawl tasks did and in whatever order the tasks
\* completed, the crawled references hold every candidate whose extraction
\* returned a non-empty content exactly once and no other candidate; once all
\* tasks are consumed these references are what scoring gets.
C30_UsableKeptOnce ==
    pc \in { "crawl", "done" } =>
        /\ usable \subseteq 1..Len(reference_articles)
        /\ usable \cap pending = {}
        /\ Len(reference_contents) = Cardinality(usable)
        /\ \E f \in [ 1..Len(reference_contents) -> usable ] :
              /\ \A k, l \in 1..Len(reference_contents) : f[k] = f[l] => k = l
              /\ \A k \in 1..Len(reference_contents) :
                    reference_contents[k].url = reference_articles[f[k]].url
        /\ (pc = "done" /\ results.status = "success") =>
              /\ pending = {}
              /\ Len(results.similarity_details[1]) = Cardinality(usable)
              /\ \A i \in usable :
                    \E k \in 1..Len(results.similarity_details[1]) :
                        results.similarity_details[1][k].url = reference_articles[i].url

\* Two candidates: the extraction of the first failed or raised, the second
\* returned a content and is the one article that was scored.
C30_Witness ==
    /\ pc = "done"
    /\ results.status = "success"
    /\ Len(reference_articles) = 2
    /\ usable = { 2 }
    /\ Len(reference_contents) = 1
    /\ reference_contents[1].url = reference_articles[2].url

\* C31: on success similarity_details and top_references are in descending
\* order of similarity, and top_references are the first three (all, when
\* fewer) of similarity_details, so that no article left out of them scored
\* higher than one of them, for every order the crawled articles arrived in.
C31_SortedByScore ==
    (pc = "done" /\ results.status = "success") =>
        LET details == results.similarity_details[1]
            top == results.top_references[1]
        IN  /\ \A k \in 1..(Len(details) - 1) :
                  details[k].overall_similarity >= details[k + 1].overall_similarity
            /\ \A k \in 1..(Len(top) - 1) : top[k].similarity >= top[k + 1].similarity
            /\ Len(top) = (IF Len(details) < 3 THEN Len(details) ELSE 3)
            /\ \A k \in 1..Len(top) :
                  /\ top[k].url = details[k].url
                  /\ top[k].similarity = details[k].overall_similarity
            /\ \A k \in 1..Len(top) :
                  \A l \in (Len(top) + 1)..Len(details) :
                      top[k].similarity >= details[l].overall_similarity

\* Four articles crawled in ascending order of score: the last one crawled is
\* listed first and the first one crawled is left out of top_references.
C31_Witness ==
    /\ pc = "done"
    /\ results.status = "success"
    /\ similarities = << 0 - 20, 60, 61, 90 >>
    /\ results.top_references[1][1].url = reference_contents[4].url
    /\ Len(results.top_references[1]) = 3
    /\ \A k \in 1..3 : results.top_references[1][k].url # reference_contents[1].url

\* C32: whenever check_fact returns status success the result holds a verdict
\* with its code and confidence, an average_similarity value, and
\* top_references whose entries carry title, url and similarity.
C32_SuccessHasAverageSimilarity ==
    (pc = "done" /\ results.status = "success") =>
        /\ results.verdict # None
        /\ { "verdict", "confidence" } \subseteq DOMAIN results.verdict[1]
        /\ results.average_similarity # None
        /\ results.top_references # None
        /\ \A k \in 1..Len(results.top_references[1]) :
              { "title", "url", "similarity" } \subseteq DOMAIN results.top_references[1][k]

\* C33: the extraction check_fact invokes for a candidate is invoked once, and
\* when it returns nothing, so that the candidate is dropped, the direct
\* fetch, the archive snapshot and the search snippet were all tried for it.
C33_DroppedAfterFallbacks ==
    (crawler # None /\ crawler.pc = "done" /\ crawler.tried[1].method = "preprocessor") =>
        /\ Cardinality({ i \in 1..Len(crawler.tried) :
                            crawler.tried[i].method = "preprocessor" }) = 1
        /\ crawler.result = None =>
              \A m \in { "requests", "archive", "snippet" } :
                  \E i \in 1..Len(crawler.tried) : crawler.tried[i].method = m

\* The attempts of the direct fetch so far, in order.
AttemptsMade == SelectSeq(crawler.events, LAMBDA e : e.kind = "attempt")

\* C34: the direct fetch makes at most max_retries attempts; it returns at the
\* first attempt that gets a page with a body of more than 100 characters; an
\* exception or a status other than 200 in an attempt does not stop the later
\* attempts; it waits between two attempts and not after the last one; it
\* returns nothing after the last failed attempt.
C34_DirectFetchAttempts ==
    crawler # None =>
        LET events == crawler.events
            made == AttemptsMade
        IN  /\ Len(made) <= crawler.max_retries
            /\ \A i \in 1..(Len(made) - 1) : PageResult(made[i].outcome[1]) = None
            /\ \A i \in 1..Len(events) :
                  events[i].kind = (IF i % 2 = 1 THEN "attempt" ELSE "sleep")
            /\ crawler.pc = "returned" =>
                  /\ events # << >>
                  /\ events[Len(events)].kind = "attempt"
                  /\ crawler.result = PageResult(made[Len(made)].outcome[1])
                  /\ crawler.result = None => Len(made) = crawler.max_retries
            /\ crawler.pc # "returned" => crawler.result = None

\* Three attempts: an exception, a status other than 200, a page; a wait after
\* each of the first two.
C34_Witness ==
    /\ crawler # None
    /\ crawler.pc = "returned"
    /\ crawler.max_retries = 3
    /\ Len(crawler.events) = 5
    /\ crawler.events[1].outcome[1].kind = "exception"
    /\ crawler.events[3].outcome[1].kind = "no_page"
    /\ crawler.result # None

\* C35: when the <article> element yields fewer than 200 characters, no
\* content-like container has a longer extraction than the body kept after
\* the containers were scanned.
C35_LongestContainerKept ==
    (crawler # None /\ crawler.pc = "done"
        /\ crawler.article # None /\ crawler.article[1] < 200) =>
        /\ crawler.scanned # None
        /\ \A i \in 1..Len(crawler.divs) : crawler.divs[i] <= crawler.scanned[1]

\* C36: a request handled while the fact checker instance is not initialised
\* is answered with HTTP 503 and check_fact is not called; a ValueError gives
\* 400; 500 is given only for other unexpected exceptions.
C36_UninitialisedGives503 ==
    (api # None /\ api.pc = "responded") =>
        /\ ~api.initialised => (api.status = Some(503) /\ pc = "not_called")
        /\ api.exc = Some("ValueError") => api.status = Some(400)
        /\ api.status = Some(500) =>
              (api.exc # None /\ api.exc[1] \notin { "ValueError", "HTTPException" })

\* The invocations of the wrapped function and the waits so far, in order.
CallsMade == SelectSeq(wrapper.events, LAMBDA e : e.kind = "call")
WaitsMade == SelectSeq(wrapper.events, LAMBDA e : e.kind = "sleep")

\* C37: a function wrapped by retry_with_backoff with retries = n, n >= 1, is
\* invoked at most n times per call; the wrapper returns the first successful
\* result without invoking it again; between two consecutive attempts it waits
\* backoff * 2^x plus a jitter of at most a second, a delay that grows with
\* the attempt index x; after the n-th failure it raises that exception again
\* without waiting.
C37_RetryWithBackoff ==
    wrapper # None =>
        LET events == wrapper.events
            made == CallsMade
            waits == WaitsMade
        IN  /\ Len(made) <= wrapper.retries
            /\ \A i \in 1..(Len(made) - 1) : made[i].outcome[1].kind = "raised"
            /\ \A i \in 1..Len(events) :
                  events[i].kind = (IF i % 2 = 1 THEN "call" ELSE "sleep")
            /\ \A i \in 1..Len(waits) :
                  /\ waits[i].wait >= 2 * (2 ^ (i - 1)) * 10
                  /\ waits[i].wait <= 2 * (2 ^ (i - 1)) * 10 + 10
                  /\ i > 1 => waits[i].wait > waits[i - 1].wait
            /\ wrapper.pc = "returned" =>
                  /\ made # << >>
                  /\ events[Len(events)] = made[Len(made)]
                  /\ made[Len(made)].outcome[1].kind = "returned"
                  /\ wrapper.returned = Some(made[Len(made)].outcome[1].value)
                  /\ wrapper.raised = None
            /\ wrapper.pc = "raised" =>
                  /\ Len(made) = wrapper.retries
                  /\ events[Len(events)] = made[Len(made)]
                  /\ wrapper.raised = Some(made[Len(made)].outcome[1].value)
                  /\ wrapper.returned = None
            /\ wrapper.pc \in { "loop", "sleep" } =>
                  (wrapper.returned = None /\ wrapper.raised = None)

\* retries = 3: a timeout, a wait, an HTTP error, a longer wait, and the third
\* failure is raised.
C37_Witness ==
    /\ wrapper # None
    /\ wrapper.retries = 3
    /\ wrapper.pc = "raised"
    /\ Len(wrapper.events) = 5
    /\ wrapper.events[1].outcome[1].value = "Timeout"
    /\ wrapper.events[2].wait = 30
    /\ wrapper.events[4].wait = 40
    /\ wrapper.raised = Some("HTTPError")

\* The bijections of 1..n onto itself.
Orders(n) == { f \in [ 1..n -> 1..n ] : \A i, j \in 1..n : f[i] = f[j] => i = j }

\* The verdict lines 194-273 compute when the same articles, each with its own
\* score, were crawled in the given order.
VerdictInOrder(order) ==
    LET contents == [ k \in 1..Len(reference_contents) |-> reference_contents[order[k]] ]
        sims == [ k \in 1..Len(similarities) |-> similarities[order[k]] ]
        details == SimilarityResults(calculate_similarity_batch(sims), contents)
    IN  generate_verdict(HighestSimilarity(FinalScores(TopResults(details))))

\* C38: the verdict and highest_similarity of a successful check are those of
\* every other completion order of the same crawled articles with the same
\* titles and scores, also when two of them have equal scores and only one a
\* refutation title.
C38_VerdictIndependentOfOrder ==
    (pc = "done" /\ results.status = "success") =>
        \A order \in Orders(Len(reference_contents)) :
            /\ VerdictInOrder(order).verdict = results.verdict[1].verdict
            /\ VerdictInOrder(order).similarity_score = results.highest_similarity[1]

\* C39: when the first-ranked reference has a refutation keyword in its title
\* and a raw score above 0.6, the verdict of a successful check is
\* LIKELY_FALSE or HIGHLY_LIKELY_FALSE whatever the other references are, and
\* top_references lists that reference with its raw score.
C39_TopRefutationGivesFalse ==
    (pc = "done" /\ results.status = "success"
        /\ HasRefutation(results.similarity_details[1][1].title)
        /\ results.similarity_details[1][1].overall_similarity > 60) =>
        /\ results.verdict[1].verdict \in { "LIKELY_FALSE", "HIGHLY_LIKELY_FALSE" }
        /\ results.top_references[1][1].url = results.similarity_details[1][1].url
        /\ results.top_references[1][1].similarity
              = results.similarity_details[1][1].overall_similarity
        /\ \E i \in 1..Len(reference_contents) :
              /\ reference_contents[i].url = results.top_references[1][1].url
              /\ similarities[i] = results.top_references[1][1].similarity

\* A debunking article scored 0.61 ranks first before two plain articles
\* scored 0.60: the verdict is LIKELY_FALSE and the reference is listed at 0.61.
C39_Witness ==
    /\ pc = "done"
    /\ results.status = "success"
    /\ Len(reference_contents) = 3
    /\ HasRefutation(results.similarity_details[1][1].title)
    /\ results.top_references[1][1].similarity = 61
    /\ results.similarity_details[1][2].overall_similarity = 60
    /\ ~HasRefutation(results.similarity_details[1][2].title)
    /\ results.verdict[1].verdict = "LIKELY_FALSE"

=============================================================================
